---- MODULE Spec2Model ----
(***************************************************************************)
(* Model of the hyperdrive tape-recovery scripts (src/recovery/*.py):      *)
(* pulse reading, S/M/L clustering, bit decoding, countdown-block parsing, *)
(* copy selection, header choice, assembly, heuristic BASIC location and   *)
(* detokenising.  Byte strings are sequences of integers 0..255; Python's  *)
(* 0-based indexing is kept through At and Slice.  Text is a sequence of   *)
(* character codes.                                                        *)
(***************************************************************************)
EXTENDS Integers, Sequences, FiniteSets, TLC

VARIABLES
    \* ---- bit decoder (decode_bytes_from_pulse_categories) ----
    dsrc,      \* the byte sequence the category stream was built from
    dslack,    \* the loop guard's slack: 60 (tap_to_basic*) or 40 (tap_dump_all_strings)
    cats,      \* the category sequence being decoded
    di,        \* scan position i
    dout,      \* output buffer out
    dpc,       \* "idle" | "scan" | "done"
    \* ---- block recovery, main() of tap_to_basic.py / tap_to_basic_blocks.py ----
    prog,      \* "basic" (tap_to_basic.py) | "blocks" (tap_to_basic_blocks.py)
    use_copy,  \* args.use_copy: "A" | "B" | "AUTO" ("basic" has no option: AUTO)
    decoded,   \* the decoded byte stream handed to find_blocks
    blocks,    \* find_blocks(decoded)
    use_blocks,\* the selected copy stream
    hdr,       \* the chosen header: [index, ftype, start, end, length]
    prg,       \* the program image written to args.prg
    warned,    \* the shortfall WARNING was printed
    mpc,       \* position in main()
    \* ---- detokeniser (detokenise_line / detokenize) ----
    tvariant,  \* "line": detokenise_line (tap_* scripts); "listing": detokenize (prg_to_listing.py)
    tbody,     \* the line body
    ti,        \* bytes consumed
    tinq,      \* in_quotes
    tout,      \* the list out, one piece per consumed byte
    ttext,     \* the returned text
    tpc,       \* "idle" | "scan" | "done"
    \* ---- prg_to_listing ----
    lmode,     \* "pointer" (tap_to_basic*.py) | "eol" (tap_find_basic_prg.py)
    limg,      \* the program image prg
    loff,      \* off
    liter,     \* iterations of "for _ in range(20000)" done
    llines,    \* lines_out: <<line number, text>> per line
    lnext,     \* the last next offset computed (-1: none yet)
    lvisited,  \* history: every value off has taken
    ltext,     \* the returned listing
    lpc,       \* "idle" | "run" | "done"
    \* ---- read, classify, decode (the first three stages of every main) ----
    capture,   \* the bytes of the capture file
    cslack,    \* the decoder's look-ahead margin: 60 or 40
    pulses,    \* read_tap_v1_pulses(path)
    centers,   \* the sorted centers, each <<numerator, denominator>>
    ccats,     \* the category list
    cdecoded,  \* decoded
    cpc,       \* "idle" | "start" | "read" | "classified" | "decoded" | "located" | "fatal_*"
    cerr,      \* the class of the exception that ended the run, "none" if none
    \* ---- find_best_basic ----
    fbuf,      \* buf: the decoded bytes
    foff,      \* off: the next offset of the scan
    fbest,     \* best: <<>> for None, else <<score, off, load, end_off, lines>>
    fpc,       \* "idle" | "scan" | "found" | "fatal_nocandidate"
    \* ---- kmeans_1d and classify_short_medium_long, round by round ----
    kpulses,   \* the pulses handed to classify_short_medium_long
    kcent,     \* centers inside kmeans_1d (unsorted), each <<numerator, denominator>>
    kround,    \* rounds of "for _ in range(iters)" done
    kresult,   \* sorted(centers) as returned
    kcats,     \* the category list
    kpc,       \* "idle" | "start" | "loop" | "clustered" | "classified" | "fatal_nopulses"
    \* ---- read_tap_v1_pulses, byte by byte ----
    rcap,      \* b: the bytes of the capture file
    rstream,   \* stream
    ri,        \* i
    rpulses,   \* pulses
    rfrom,     \* history: <<stream position, bytes consumed>> of each pulse
    rpc,       \* "idle" | "open" | "scan" | "done" | "fatal_format"
    \* ---- score_basic_candidate, line by line ----
    sbuf,      \* buf
    soff,      \* off
    sp,        \* p
    slines,    \* lines
    spen,      \* total_penalty
    slastnum,  \* last_lnum
    slastptr,  \* last_nextptr
    siter,     \* iterations of "for _ in range(5000)" done
    slnums,    \* history: the line numbers of the lines parsed
    sres,      \* the value returned: <<>> for None
    spc        \* "idle" | "start" | "loop" | "accepted" | "rejected"

decVars == <<dsrc, dslack, cats, di, dout, dpc>>

tapeVars == <<prog, use_copy, decoded, blocks, use_blocks, hdr, prg, warned, mpc>>

detokVars == <<tvariant, tbody, ti, tinq, tout, ttext, tpc>>

listVars == <<lmode, limg, loff, liter, llines, lnext, lvisited, ltext, lpc>>

capVars == <<capture, cslack, pulses, centers, ccats, cdecoded, cpc, cerr>>

locVars == <<fbuf, foff, fbest, fpc>>

cluVars == <<kpulses, kcent, kround, kresult, kcats, kpc>>

rdVars == <<rcap, rstream, ri, rpulses, rfrom, rpc>>

scVars == <<sbuf, soff, sp, slines, spen, slastnum, slastptr, siter, slnums, sres, spc>>

vars == <<dsrc, dslack, cats, di, dout, dpc,
          prog, use_copy, decoded, blocks, use_blocks, hdr, prg, warned, mpc,
          tvariant, tbody, ti, tinq, tout, ttext, tpc,
          lmode, limg, loff, liter, llines, lnext, lvisited, ltext, lpc,
          capture, cslack, pulses, centers, ccats, cdecoded, cpc, cerr,
          fbuf, foff, fbest, fpc,
          kpulses, kcent, kround, kresult, kcats, kpc,
          rcap, rstream, ri, rpulses, rfrom, rpc,
          sbuf, soff, sp, slines, spen, slastnum, slastptr, siter, slnums, sres, spc>>

\* the variables of the other components, untouched by a component's actions
decOthers == <<tapeVars, detokVars, listVars, capVars, locVars, cluVars, rdVars, scVars>>

tapeOthers == <<decVars, detokVars, listVars, capVars, locVars, cluVars, rdVars, scVars>>

detokOthers == <<decVars, tapeVars, listVars, capVars, locVars, cluVars, rdVars, scVars>>

listOthers == <<decVars, tapeVars, detokVars, capVars, locVars, cluVars, rdVars, scVars>>

capOthers == <<decVars, tapeVars, detokVars, listVars, locVars, cluVars, rdVars, scVars>>

locOthers == <<decVars, tapeVars, detokVars, listVars, capVars, cluVars, rdVars, scVars>>

cluOthers == <<decVars, tapeVars, detokVars, listVars, capVars, locVars, rdVars, scVars>>

rdOthers == <<decVars, tapeVars, detokVars, listVars, capVars, locVars, cluVars, scVars>>

scOthers == <<decVars, tapeVars, detokVars, listVars, capVars, locVars, cluVars, rdVars>>

\* a component that a specification does not run stays idle
DecoderIdle ==
    /\ dsrc = <<>> /\ dslack = 0 /\ cats = <<>> /\ di = 0 /\ dout = <<>> /\ dpc = "idle"

TapeIdle ==
    /\ prog = "none" /\ use_copy = "none" /\ decoded = <<>> /\ blocks = <<>>
    /\ use_blocks = <<>> /\ hdr = <<>> /\ prg = <<>> /\ warned = FALSE /\ mpc = "idle"

DetokIdle ==
    /\ tvariant = "none" /\ tbody = <<>> /\ ti = 0 /\ tinq = FALSE /\ tout = <<>>
    /\ ttext = <<>> /\ tpc = "idle"

ListIdle ==
    /\ lmode = "none" /\ limg = <<>> /\ loff = 0 /\ liter = 0 /\ llines = <<>>
    /\ lnext = -1 /\ lvisited = <<>> /\ ltext = <<>> /\ lpc = "idle"

CapIdle ==
    /\ capture = <<>> /\ cslack = 0 /\ pulses = <<>> /\ centers = <<>>
    /\ ccats = <<>> /\ cdecoded = <<>> /\ cpc = "idle" /\ cerr = "none"

LocIdle == fbuf = <<>> /\ foff = 0 /\ fbest = <<>> /\ fpc = "idle"

ClusterIdle ==
    /\ kpulses = <<>> /\ kcent = <<>> /\ kround = 0 /\ kresult = <<>>
    /\ kcats = <<>> /\ kpc = "idle"

ReaderIdle ==
    /\ rcap = <<>> /\ rstream = <<>> /\ ri = 0 /\ rpulses = <<>> /\ rfrom = <<>>
    /\ rpc = "idle"

ScoreIdle ==
    /\ sbuf = <<>> /\ soff = 0 /\ sp = 0 /\ slines = 0 /\ spen = 0 /\ slastnum = -1
    /\ slastptr = 0 /\ siter = 0 /\ slnums = <<>> /\ sres = <<>> /\ spc = "idle"

DecOthersIdle ==
    TapeIdle /\ DetokIdle /\ ListIdle /\ CapIdle
    /\ LocIdle /\ ClusterIdle /\ ReaderIdle /\ ScoreIdle

TapeOthersIdle ==
    DecoderIdle /\ DetokIdle /\ ListIdle /\ CapIdle
    /\ LocIdle /\ ClusterIdle /\ ReaderIdle /\ ScoreIdle

DetokOthersIdle ==
    DecoderIdle /\ TapeIdle /\ ListIdle /\ CapIdle
    /\ LocIdle /\ ClusterIdle /\ ReaderIdle /\ ScoreIdle

ListOthersIdle ==
    DecoderIdle /\ TapeIdle /\ DetokIdle /\ CapIdle
    /\ LocIdle /\ ClusterIdle /\ ReaderIdle /\ ScoreIdle

CapOthersIdle ==
    DecoderIdle /\ TapeIdle /\ DetokIdle /\ ListIdle
    /\ LocIdle /\ ClusterIdle /\ ReaderIdle /\ ScoreIdle

LocOthersIdle ==
    DecoderIdle /\ TapeIdle /\ DetokIdle /\ ListIdle
    /\ CapIdle /\ ClusterIdle /\ ReaderIdle /\ ScoreIdle

CluOthersIdle ==
    DecoderIdle /\ TapeIdle /\ DetokIdle /\ ListIdle
    /\ CapIdle /\ LocIdle /\ ReaderIdle /\ ScoreIdle

RdOthersIdle ==
    DecoderIdle /\ TapeIdle /\ DetokIdle /\ ListIdle
    /\ CapIdle /\ LocIdle /\ ClusterIdle /\ ScoreIdle

ScOthersIdle ==
    DecoderIdle /\ TapeIdle /\ DetokIdle /\ ListIdle
    /\ CapIdle /\ LocIdle /\ ClusterIdle /\ ReaderIdle

(***************************************************************************)
(* Python helpers                                                          *)
(***************************************************************************)
At(s, k) == s[k + 1]

Min2(a, b) == IF a < b THEN a ELSE b

Max2(a, b) == IF a > b THEN a ELSE b

Abs(x) == IF x < 0 THEN 0 - x ELSE x

\* Python s[a:b] for 0 <= a, with b clamped to len(s)
Slice(s, a, b) ==
    LET hi == Min2(b, Len(s))
    IN IF a >= hi THEN <<>> ELSE SubSeq(s, a + 1, hi)

RECURSIVE Pow2(_)
Pow2(k) == IF k = 0 THEN 1 ELSE 2 * Pow2(k - 1)

\* bit k of byte x
BitOf(x, k) == (x \div Pow2(k)) % 2

Repeat(x, n) == IF n <= 0 THEN <<>> ELSE [k \in 1..n |-> x]

\* the least element of a non-empty set of integers
MinOf(S) == CHOOSE m \in S : \A k \in S : m <= k

RECURSIVE Concat(_)
Concat(ss) == IF ss = <<>> THEN <<>> ELSE Head(ss) \o Concat(Tail(ss))

(***************************************************************************)
(* Categories: 0 = Short, 1 = Medium, 2 = Long, None = Unknown             *)
(***************************************************************************)
CatS == 0
CatM == 1
CatL == 2
NoneCat == -1

(***************************************************************************)
(* decode_bytes_from_pulse_categories                                      *)
(***************************************************************************)
SlackBasic == 60
SlackStrings == 40

\* "cats[i] == 2 and cats[i+1] in (0, 1)"
IsSync(cs, i) == At(cs, i) = CatL /\ At(cs, i + 1) \in {CatS, CatM}

\* mutant of PairBit: an Unknown symbol is read as Short
PairBitLenient(cs, j) ==
    LET a == IF At(cs, j) = NoneCat THEN CatS ELSE At(cs, j)
        b == IF At(cs, j + 1) = NoneCat THEN CatS ELSE At(cs, j + 1)
    IN IF a = CatM /\ b = CatS THEN 1
       ELSE IF a = CatS /\ b = CatM THEN 0
       ELSE -1

\* the pair (cats[j], cats[j+1]) as a bit: 1, 0, or -1 when the pair is invalid
PairBit(cs, j) ==
    LET a == At(cs, j)
        b == At(cs, j + 1)
    IN IF a = NoneCat \/ b = NoneCat THEN -1
       ELSE IF a = CatM /\ b = CatS THEN 1
       ELSE IF a = CatS /\ b = CatM THEN 0
       ELSE -1

\* the eight pairs after the marker at i are all valid
PairsOk(cs, i) == \A k \in 0..7 : PairBit(cs, i + 2 + 2 * k) # -1

\* "val |= (bit << k)" for k = 0..7
RECURSIVE ByteFromPairs(_, _, _)
ByteFromPairs(cs, i, k) ==
    IF k = 8 THEN 0
    ELSE PairBit(cs, i + 2 + 2 * k) * Pow2(k) + ByteFromPairs(cs, i, k + 1)

\* position after the consumed marker and pairs: "i = j"
AfterByte(i) == i + 2 + 16

\* the loop guard "while i < n - 60"
DecodeGuard(cs, i, slack) == i < Len(cs) - slack

\* one loop iteration: the new (i, out)
DecodeIter(cs, i, out) ==
    IF IsSync(cs, i) /\ PairsOk(cs, i)
    THEN [i |-> AfterByte(i), out |-> Append(out, ByteFromPairs(cs, i, 0))]
    ELSE [i |-> i + 1, out |-> out]

RECURSIVE DecodeFrom(_, _, _, _)
DecodeFrom(cs, i, out, slack) ==
    IF ~DecodeGuard(cs, i, slack) THEN out
    ELSE LET r == DecodeIter(cs, i, out)
         IN DecodeFrom(cs, r.i, r.out, slack)

decode_bytes_from_pulse_categories(cs, slack) == DecodeFrom(cs, 0, <<>>, slack)

(***************************************************************************)
(* Commodore tape block parsing: xor_checksum, find_blocks                 *)
(***************************************************************************)
COUNTDOWN_A == <<137, 136, 135, 134, 133, 132, 131, 130, 129>>
COUNTDOWN_B == <<9, 8, 7, 6, 5, 4, 3, 2, 1>>

CountdownLen == 9
PayloadLen == 192

\* a ^ b on 4-bit values, row a + 1, column b + 1
XorNibble ==
   <<
      <<0, 1, 2, 3, 4, 5, 6, 7, 8, 9, 10, 11, 12, 13, 14, 15>>,
      <<1, 0, 3, 2, 5, 4, 7, 6, 9, 8, 11, 10, 13, 12, 15, 14>>,
      <<2, 3, 0, 1, 6, 7, 4, 5, 10, 11, 8, 9, 14, 15, 12, 13>>,
      <<3, 2, 1, 0, 7, 6, 5, 4, 11, 10, 9, 8, 15, 14, 13, 12>>,
      <<4, 5, 6, 7, 0, 1, 2, 3, 12, 13, 14, 15, 8, 9, 10, 11>>,
      <<5, 4, 7, 6, 1, 0, 3, 2, 13, 12, 15, 14, 9, 8, 11, 10>>,
      <<6, 7, 4, 5, 2, 3, 0, 1, 14, 15, 12, 13, 10, 11, 8, 9>>,
      <<7, 6, 5, 4, 3, 2, 1, 0, 15, 14, 13, 12, 11, 10, 9, 8>>,
      <<8, 9, 10, 11, 12, 13, 14, 15, 0, 1, 2, 3, 4, 5, 6, 7>>,
      <<9, 8, 11, 10, 13, 12, 15, 14, 1, 0, 3, 2, 5, 4, 7, 6>>,
      <<10, 11, 8, 9, 14, 15, 12, 13, 2, 3, 0, 1, 6, 7, 4, 5>>,
      <<11, 10, 9, 8, 15, 14, 13, 12, 3, 2, 1, 0, 7, 6, 5, 4>>,
      <<12, 13, 14, 15, 8, 9, 10, 11, 4, 5, 6, 7, 0, 1, 2, 3>>,
      <<13, 12, 15, 14, 9, 8, 11, 10, 5, 4, 7, 6, 1, 0, 3, 2>>,
      <<14, 15, 12, 13, 10, 11, 8, 9, 6, 7, 4, 5, 2, 3, 0, 1>>,
      <<15, 14, 13, 12, 11, 10, 9, 8, 7, 6, 5, 4, 3, 2, 1, 0>>
   >>

\* a ^ b on bytes
XorByte(a, b) ==
    16 * XorNibble[(a \div 16) + 1][(b \div 16) + 1] + XorNibble[(a % 16) + 1][(b % 16) + 1]

\* "for b in payload: x ^= b" over payload[lo..hi] (1-based), folded by halves:
\* ^ is associative, so the value is that of the left-to-right loop
RECURSIVE XorRange(_, _, _)
XorRange(payload, lo, hi) ==
    IF lo > hi THEN 0
    ELSE IF lo = hi THEN payload[lo]
    ELSE LET mid == (lo + hi) \div 2
         IN XorByte(XorRange(payload, lo, mid), XorRange(payload, mid + 1, hi))

xor_checksum(payload) == XorRange(payload, 1, Len(payload)) % 256

\* the loop guard "while i < L - (9 + 192 + 1)"
BlockGuard(stream, i) == i < Len(stream) - (CountdownLen + PayloadLen + 1)

\* "xor_checksum(payload) == cks"
ChecksumOk(b) == xor_checksum(b.payload) = b.cks

\* mutant of BlockAt: the payload slice is one byte short
BlockAtShortPayload(stream, i, copyB) ==
    LET off == i + CountdownLen
    IN [off |-> off,
        payload |-> Slice(stream, off, off + PayloadLen - 1),
        cks |-> At(stream, off + PayloadLen),
        copyB |-> copyB]

\* the tuple (off, payload, cks, is_copyB) appended for a countdown at i
BlockAt(stream, i, copyB) ==
    LET off == i + CountdownLen
    IN [off |-> off,
        payload |-> Slice(stream, off, off + PayloadLen),
        cks |-> At(stream, off + PayloadLen),
        copyB |-> copyB]

\* mutant of AfterBlock: the scan resumes right after the countdown
AfterCountdown(i) == i + CountdownLen

\* "i = off + 192 + 1"
AfterBlock(i) == i + CountdownLen + PayloadLen + 1

\* "decoded[i:i+9] == COUNTDOWN_A" / "== COUNTDOWN_B"
IsCountdownAt(stream, j) ==
    Slice(stream, j, j + CountdownLen) \in {COUNTDOWN_A, COUNTDOWN_B}

\* the position the "i += 1" steps stop at: the first j >= i inside the loop
\* guard where a countdown starts; -1 when the guard fails first
NextCountdown(stream, i) ==
    LET hits == {j \in i..(Len(stream) - 1) : BlockGuard(stream, j) /\ IsCountdownAt(stream, j)}
    IN IF hits = {} THEN -1 ELSE MinOf(hits)

\* mutant of FindBlocksFrom: a block whose checksum does not match is dropped
RECURSIVE FindBlocksValidOnly(_, _, _)
FindBlocksValidOnly(stream, i, found) ==
    LET j == NextCountdown(stream, i)
        b == BlockAt(stream, j, Slice(stream, j, j + CountdownLen) = COUNTDOWN_B)
    IN IF j = -1 THEN found
       ELSE FindBlocksValidOnly(stream, AfterBlock(j),
               IF ChecksumOk(b) THEN Append(found, b) ELSE found)

\* the scan from position i with the blocks found so far
RECURSIVE FindBlocksFrom(_, _, _)
FindBlocksFrom(stream, i, found) ==
    LET j == NextCountdown(stream, i)
    IN IF j = -1 THEN found
       ELSE FindBlocksFrom(stream, AfterBlock(j),
               Append(found, BlockAt(stream, j, Slice(stream, j, j + CountdownLen) = COUNTDOWN_B)))

find_blocks(stream) == FindBlocksFrom(stream, 0, <<>>)

u16le(b, off) == At(b, off) + 256 * At(b, off + 1)

\* parse_header without the filename decoding: (ftype, start, end, rawname)
parse_header(header192) ==
    [ftype |-> At(header192, 0),
     start |-> u16le(header192, 1),
     end |-> u16le(header192, 3),
     rawname |-> Slice(header192, 5, 21)]

(***************************************************************************)
(* score_header_candidate (tap_to_basic_blocks.py)                         *)
(***************************************************************************)
\* the filename test of the "printable" counter
IsPrintableName(c) ==
    \/ (32 <= c /\ c <= 90)
    \/ (97 <= c /\ c <= 122)
    \/ (48 <= c /\ c <= 57)
    \/ c \in {45, 46, 95}
    \/ c = 32

\* "nonspace" and "printable" after the loop over rawname
CountNonSpace(sq) == Cardinality({k \in 1..Len(sq) : sq[k] # 32})

CountPrintable(sq) == Cardinality({k \in 1..Len(sq) : IsPrintableName(sq[k])})

\* "if 0x0F00 <= start <= 0x2000: score += 20; score += max(0, 20 - abs(start - 0x1001) // 32)"
StartBonus(start) ==
    IF 3840 <= start /\ start <= 8192
    THEN 20 + Max2(0, 20 - (Abs(start - 4097) \div 32))
    ELSE 0

\* plausible: the broad sanity checks and a filename that is not all spaces
HeaderPlausible(payload) ==
    LET h == parse_header(payload)
        length == h.end - h.start
    IN /\ 512 <= h.start /\ h.start <= 32768
       /\ 512 <= length /\ length <= 32768
       /\ CountNonSpace(h.rawname) # 0

HeaderScore(payload) ==
    LET h == parse_header(payload)
        length == h.end - h.start
    IN StartBonus(h.start) + CountPrintable(h.rawname) + Min2(40, length \div 512)

\* the scan "for idx, ... in enumerate(use_blocks)": the first block with the
\* strictly greatest score; -1 when no block is plausible
RECURSIVE BestHeaderFrom(_, _, _)
BestHeaderFrom(ub, idx, best) ==
    IF idx >= Len(ub) THEN best
    ELSE LET pl == At(ub, idx).payload
         IN IF HeaderPlausible(pl)
               /\ (best = -1 \/ HeaderScore(pl) > HeaderScore(At(ub, best).payload))
            THEN BestHeaderFrom(ub, idx + 1, idx)
            ELSE BestHeaderFrom(ub, idx + 1, best)

BestHeaderIndex(ub) == BestHeaderFrom(ub, 0, -1)

(***************************************************************************)
(* main(): copy selection, header choice, assembly                         *)
(***************************************************************************)
MaxHeaderLength == 1000000

ABlocks(bl) == SelectSeq(bl, LAMBDA b : ~b.copyB)

BBlocks(bl) == SelectSeq(bl, LAMBDA b : b.copyB)

\* mutant of SelectBlocks: an override whose copy is absent falls back to the other copy
SelectBlocksFallback(pg, uc, bl) ==
    IF pg = "basic"
    THEN (IF ABlocks(bl) # <<>> THEN ABlocks(bl) ELSE bl)
    ELSE IF uc = "A" THEN (IF ABlocks(bl) # <<>> THEN ABlocks(bl) ELSE bl)
    ELSE IF uc = "B" THEN (IF BBlocks(bl) # <<>> THEN BBlocks(bl) ELSE bl)
    ELSE (IF ABlocks(bl) # <<>> THEN ABlocks(bl) ELSE BBlocks(bl))

\* tap_to_basic.py: "use_blocks = a_blocks if a_blocks else blocks"
\* tap_to_basic_blocks.py: args.use_copy A | B | AUTO
SelectBlocks(pg, uc, bl) ==
    IF pg = "basic"
    THEN (IF ABlocks(bl) # <<>> THEN ABlocks(bl) ELSE bl)
    ELSE IF uc = "A" THEN ABlocks(bl)
    ELSE IF uc = "B" THEN BBlocks(bl)
    ELSE (IF ABlocks(bl) # <<>> THEN ABlocks(bl) ELSE BBlocks(bl))

\* mutant of ChooseHeader: tap_to_basic.py without its length test
ChooseHeaderUnchecked(pg, ub) ==
    IF pg = "basic"
    THEN LET h == parse_header(At(ub, 0).payload)
         IN [index |-> 0, start |-> h.start, end |-> h.end, length |-> h.end - h.start]
    ELSE LET idx == BestHeaderIndex(ub)
         IN IF idx = -1
            THEN [index |-> -1, start |-> 0, end |-> 0, length |-> 0]
            ELSE LET h == parse_header(At(ub, idx).payload)
                 IN [index |-> idx, start |-> h.start, end |-> h.end,
                     length |-> h.end - h.start]

\* the header main() settles on; index -1 when the attempt is fatal
ChooseHeader(pg, ub) ==
    IF pg = "basic"
    THEN LET h == parse_header(At(ub, 0).payload)
             length == h.end - h.start
         IN IF length <= 0 \/ length > MaxHeaderLength
            THEN [index |-> -1, start |-> h.start, end |-> h.end, length |-> length]
            ELSE [index |-> 0, start |-> h.start, end |-> h.end, length |-> length]
    ELSE LET idx == BestHeaderIndex(ub)
         IN IF idx = -1
            THEN [index |-> -1, start |-> 0, end |-> 0, length |-> 0]
            ELSE LET h == parse_header(At(ub, idx).payload)
                 IN [index |-> idx, start |-> h.start, end |-> h.end,
                     length |-> h.end - h.start]

\* b"".join(b[1] for b in use_blocks[hdr_index+1:])
RECURSIVE JoinPayloads(_, _)
JoinPayloads(ub, from) ==
    IF from >= Len(ub) THEN <<>>
    ELSE At(ub, from).payload \o JoinPayloads(ub, from + 1)

\* "assembled[:length]"
Assembled(ub, h) == Slice(JoinPayloads(ub, h.index + 1), 0, h.length)

\* only tap_to_basic_blocks.py tests "len(assembled) < length" and prints WARNING
ShortfallWarned(pg, ub, h) ==
    pg = "blocks" /\ Len(JoinPayloads(ub, h.index + 1)) < h.length

\* struct.pack("<H", start) + assembled
PackImage(start, body) == <<start % 256, start \div 256>> \o body

(***************************************************************************)
(* BASIC detokeniser.  Text is a sequence of character codes; the list     *)
(* `out` of the code is a sequence of such pieces, one per byte consumed.  *)
(***************************************************************************)
\* keyword text of the token bytes 0x80..0xCB, entry b - 127.  TOK of the
\* tap_* scripts ends at 0xCA (MID$); TOKENS of prg_to_listing.py adds 0xCB (GO).
TokenText ==
   <<
      <<69, 78, 68>>,                       \* 80 END
      <<70, 79, 82>>,                       \* 81 FOR
      <<78, 69, 88, 84>>,                   \* 82 NEXT
      <<68, 65, 84, 65>>,                   \* 83 DATA
      <<73, 78, 80, 85, 84, 35>>,           \* 84 INPUT#
      <<73, 78, 80, 85, 84>>,               \* 85 INPUT
      <<68, 73, 77>>,                       \* 86 DIM
      <<82, 69, 65, 68>>,                   \* 87 READ
      <<76, 69, 84>>,                       \* 88 LET
      <<71, 79, 84, 79>>,                   \* 89 GOTO
      <<82, 85, 78>>,                       \* 8A RUN
      <<73, 70>>,                           \* 8B IF
      <<82, 69, 83, 84, 79, 82, 69>>,       \* 8C RESTORE
      <<71, 79, 83, 85, 66>>,               \* 8D GOSUB
      <<82, 69, 84, 85, 82, 78>>,           \* 8E RETURN
      <<82, 69, 77>>,                       \* 8F REM
      <<83, 84, 79, 80>>,                   \* 90 STOP
      <<79, 78>>,                           \* 91 ON
      <<87, 65, 73, 84>>,                   \* 92 WAIT
      <<76, 79, 65, 68>>,                   \* 93 LOAD
      <<83, 65, 86, 69>>,                   \* 94 SAVE
      <<86, 69, 82, 73, 70, 89>>,           \* 95 VERIFY
      <<68, 69, 70>>,                       \* 96 DEF
      <<80, 79, 75, 69>>,                   \* 97 POKE
      <<80, 82, 73, 78, 84, 35>>,           \* 98 PRINT#
      <<80, 82, 73, 78, 84>>,               \* 99 PRINT
      <<67, 79, 78, 84>>,                   \* 9A CONT
      <<76, 73, 83, 84>>,                   \* 9B LIST
      <<67, 76, 82>>,                       \* 9C CLR
      <<67, 77, 68>>,                       \* 9D CMD
      <<83, 89, 83>>,                       \* 9E SYS
      <<79, 80, 69, 78>>,                   \* 9F OPEN
      <<67, 76, 79, 83, 69>>,               \* A0 CLOSE
      <<71, 69, 84>>,                       \* A1 GET
      <<78, 69, 87>>,                       \* A2 NEW
      <<84, 65, 66, 40>>,                   \* A3 TAB(
      <<84, 79>>,                           \* A4 TO
      <<70, 78>>,                           \* A5 FN
      <<83, 80, 67, 40>>,                   \* A6 SPC(
      <<84, 72, 69, 78>>,                   \* A7 THEN
      <<78, 79, 84>>,                       \* A8 NOT
      <<83, 84, 69, 80>>,                   \* A9 STEP
      <<43>>,                               \* AA +
      <<45>>,                               \* AB -
      <<42>>,                               \* AC *
      <<47>>,                               \* AD /
      <<94>>,                               \* AE ^
      <<65, 78, 68>>,                       \* AF AND
      <<79, 82>>,                           \* B0 OR
      <<62>>,                               \* B1 >
      <<61>>,                               \* B2 =
      <<60>>,                               \* B3 <
      <<83, 71, 78>>,                       \* B4 SGN
      <<73, 78, 84>>,                       \* B5 INT
      <<65, 66, 83>>,                       \* B6 ABS
      <<85, 83, 82>>,                       \* B7 USR
      <<70, 82, 69>>,                       \* B8 FRE
      <<80, 79, 83>>,                       \* B9 POS
      <<83, 81, 82>>,                       \* BA SQR
      <<82, 78, 68>>,                       \* BB RND
      <<76, 79, 71>>,                       \* BC LOG
      <<69, 88, 80>>,                       \* BD EXP
      <<67, 79, 83>>,                       \* BE COS
      <<83, 73, 78>>,                       \* BF SIN
      <<84, 65, 78>>,                       \* C0 TAN
      <<65, 84, 78>>,                       \* C1 ATN
      <<80, 69, 69, 75>>,                   \* C2 PEEK
      <<76, 69, 78>>,                       \* C3 LEN
      <<83, 84, 82, 36>>,                   \* C4 STR$
      <<86, 65, 76>>,                       \* C5 VAL
      <<65, 83, 67>>,                       \* C6 ASC
      <<67, 72, 82, 36>>,                   \* C7 CHR$
      <<76, 69, 70, 84, 36>>,               \* C8 LEFT$
      <<82, 73, 71, 72, 84, 36>>,           \* C9 RIGHT$
      <<77, 73, 68, 36>>,                   \* CA MID$
      <<71, 79>>                            \* CB GO
   >>

QuoteByte == 34

\* "b in TOK" (tap_* scripts) / "b in TOKENS" (prg_to_listing.py)
InTokenTable(variant, b) ==
    IF variant = "listing" THEN 128 <= b /\ b <= 203 ELSE 128 <= b /\ b <= 202

HexDigit(d) == IF d < 10 THEN 48 + d ELSE 55 + d

\* "{%02X}" % b
HexPlaceholder(b) == <<123, HexDigit(b \div 16), HexDigit(b % 16), 125>>

\* TOK.get(b, "{%02X}" % b)
TokGet(b) == IF InTokenTable("line", b) THEN TokenText[b - 127] ELSE HexPlaceholder(b)

\* petscii_best_ascii_byte (tap_* scripts)
petscii_best_ascii_byte(x) ==
    IF x = 160 THEN <<32>>
    ELSE IF 32 <= x /\ x <= 126 THEN <<x>>
    ELSE <<46>>

\* petscii_to_ascii (prg_to_listing.py)
petscii_to_ascii(b) ==
    IF b = 160 THEN <<32>>
    ELSE IF b \in {17, 29, 157} THEN <<32>>
    ELSE IF b \in {144} THEN <<>>
    ELSE IF 193 <= b /\ b <= 218 THEN <<(b - 193) + 65>>
    ELSE IF 32 <= b /\ b <= 126 THEN <<b>>
    ELSE <<46>>

\* mutant of DetokBranch: the token test comes before the in_quotes test
DetokBranchTokenFirst(variant, b, inq) ==
    IF b = QuoteByte THEN "quote"
    ELSE IF variant = "line"
         THEN (IF b >= 128 THEN "keyword" ELSE "text")
         ELSE (IF b >= 128 /\ InTokenTable("listing", b) THEN "keyword" ELSE "text")

\* the branch one byte takes: "quote", "keyword" (token substitution or hex
\* placeholder) or "text" (PETSCII mapping)
DetokBranch(variant, b, inq) ==
    IF b = QuoteByte THEN "quote"
    ELSE IF variant = "line"
         THEN (IF inq THEN "text" ELSE IF b >= 128 THEN "keyword" ELSE "text")
         ELSE (IF (~inq) /\ b >= 128 /\ InTokenTable("listing", b) THEN "keyword" ELSE "text")

\* the piece appended for byte b
DetokPiece(variant, b, inq) ==
    LET br == DetokBranch(variant, b, inq)
    IN IF br = "quote" THEN <<QuoteByte>>
       ELSE IF br = "keyword"
            THEN (IF variant = "line" THEN TokGet(b) ELSE TokenText[b - 127])
       ELSE (IF variant = "line" THEN petscii_best_ascii_byte(b) ELSE petscii_to_ascii(b))

\* in_quotes after byte b
DetokQuotes(b, inq) == IF b = QuoteByte THEN ~inq ELSE inq

\* detokenise_line stops at a 0x00 byte; detokenize has no such test
DetokStops(variant, body, i) ==
    IF i >= Len(body) THEN TRUE ELSE variant = "line" /\ At(body, i) = 0

\* the list `out` after the loop
RECURSIVE DetokPieces(_, _, _, _)
DetokPieces(variant, body, i, inq) ==
    IF DetokStops(variant, body, i) THEN <<>>
    ELSE <<DetokPiece(variant, At(body, i), inq)>>
            \o DetokPieces(variant, body, i + 1, DetokQuotes(At(body, i), inq))

\* " ".join(s.split()): the text holds no white space but the space itself
RECURSIVE CollapseFrom(_, _, _)
CollapseFrom(s, k, acc) ==
    IF k > Len(s) THEN acc
    ELSE IF s[k] = 32
         THEN CollapseFrom(s, k + 1, acc)
    ELSE IF acc # <<>> /\ k > 1 /\ s[k - 1] = 32
         THEN CollapseFrom(s, k + 1, acc \o <<32, s[k]>>)
    ELSE CollapseFrom(s, k + 1, Append(acc, s[k]))

CollapseSpaces(s) == CollapseFrom(s, 1, <<>>)

\* the returned text: detokenise_line joins and collapses, detokenize joins
DetokFinal(variant, pieces) ==
    IF variant = "line" THEN CollapseSpaces(Concat(pieces)) ELSE Concat(pieces)

detokenise_line(body) == DetokFinal("line", DetokPieces("line", body, 0, FALSE))

detokenize(body) == DetokFinal("listing", DetokPieces("listing", body, 0, FALSE))

(***************************************************************************)
(* prg_to_listing: pointer-based (tap_to_basic.py, tap_to_basic_blocks.py) *)
(* and terminator-based (tap_find_basic_prg.py) traversal                  *)
(***************************************************************************)
MaxListLines == 20000

\* buf.find(b"\x00", start, end): the first index in [start, end) holding 0, or -1
FindZero(buf, start, end) ==
    LET hits == {k \in start..(Min2(end, Len(buf)) - 1) : At(buf, k) = 0}
    IN IF hits = {} THEN -1 ELSE MinOf(hits)

\* the loop leaves before it emits a line: the range is exhausted, fewer than
\* 4 bytes are left, next_pointer is 0, or no terminator follows
ListBreaks(img, off, iter) ==
    IF iter >= MaxListLines THEN TRUE
    ELSE IF off + 4 > Len(img) THEN TRUE
    ELSE IF u16le(img, off) = 0 THEN TRUE
    ELSE FindZero(img, off + 4, Len(img)) = -1

\* the line emitted at off: (lnum, detokenise_line(body))
ListLineAt(img, off) ==
    <<u16le(img, off + 2),
      detokenise_line(Slice(img, off + 4, FindZero(img, off + 4, Len(img))))>>

\* mutant of ListNextOff: the two load address bytes are not counted
ListNextOffNoHeader(mode, img, off) ==
    IF mode = "pointer" THEN u16le(img, off) - u16le(img, 0)
    ELSE FindZero(img, off + 4, Len(img)) + 1

\* "next_off = 2 + (nextptr - load)" / "off = eol + 1"
ListNextOff(mode, img, off) ==
    IF mode = "pointer" THEN 2 + (u16le(img, off) - u16le(img, 0))
    ELSE FindZero(img, off + 4, Len(img)) + 1

\* mutant of PtrStops: a pointer back to the line itself is followed
PtrStopsLoose(next_off, off, n) == next_off < off \/ next_off > n

\* "if next_off <= off or next_off > len(prg): break"
PtrStops(next_off, off, n) == next_off <= off \/ next_off > n

\* the traversal ends after the line at off
ListEndsAfter(mode, img, off) ==
    mode = "pointer" /\ PtrStops(ListNextOff(mode, img, off), off, Len(img))

\* str(lnum): the decimal digits
RECURSIVE Decimal(_)
Decimal(n) == IF n < 10 THEN <<48 + n>> ELSE Append(Decimal(n \div 10), 48 + (n % 10))

\* "\n".join(f"{lnum} {text}" ...) + "\n"
RECURSIVE JoinLines(_, _)
JoinLines(lines, k) ==
    IF k > Len(lines) THEN <<>>
    ELSE Decimal(lines[k][1]) \o <<32>> \o lines[k][2]
            \o (IF k < Len(lines) THEN <<10>> ELSE <<>>) \o JoinLines(lines, k + 1)

ListingText(lines) == JoinLines(lines, 1) \o <<10>>

\* the whole traversal as a function of the image: lines_out
RECURSIVE ListLinesFrom(_, _, _, _)
ListLinesFrom(mode, img, off, iter) ==
    IF ListBreaks(img, off, iter) THEN <<>>
    ELSE IF ListEndsAfter(mode, img, off) THEN <<ListLineAt(img, off)>>
    ELSE <<ListLineAt(img, off)>>
            \o ListLinesFrom(mode, img, ListNextOff(mode, img, off), iter + 1)

prg_to_listing(mode, img) == ListingText(ListLinesFrom(mode, img, 2, 0))

(***************************************************************************)
(* read_tap_v1_pulses, kmeans_1d, classify_short_medium_long               *)
(***************************************************************************)
\* the classes of the exceptions the scripts raise
ValueError == "ValueError"

RuntimeError == "RuntimeError"

\* b"C64-TAPE-RAW"
TAP_SIG == <<67, 54, 52, 45, 84, 65, 80, 69, 45, 82, 65, 87>>

HeaderSize == 20

\* the two ValueErrors of read_tap_v1_pulses: signature, version
ReadFails(b) ==
    IF Len(b) < HeaderSize \/ Slice(b, 0, 12) # TAP_SIG THEN TRUE
    ELSE At(b, 12) # 1

\* b[20:20 + data_len], data_len the little-endian 32-bit value at 16..19,
\* compared with the bytes that follow the header by its two 16-bit halves
CaptureStream(b) ==
    LET avail == Len(b) - HeaderSize
        lo == u16le(b, 16)
        hi == u16le(b, 18)
    IN IF hi > avail \div 65536 THEN Slice(b, HeaderSize, Len(b))
       ELSE IF hi = avail \div 65536 /\ lo >= avail % 65536 THEN Slice(b, HeaderSize, Len(b))
       ELSE Slice(b, HeaderSize, HeaderSize + 65536 * hi + lo)

\* mutant of RecordCut: a record that ends with the stream is dropped too
RecordCutEarly(stream, i) == i + 4 >= Len(stream)

\* "if i + 3 >= len(stream): break"
RecordCut(stream, i) == i + 3 >= Len(stream)

\* v = stream[i+1] | (stream[i+2] << 8) | (stream[i+3] << 16)
RecordValue(stream, i) ==
    At(stream, i + 1) + 256 * At(stream, i + 2) + 65536 * At(stream, i + 3)

\* the while loop: a non-zero byte is a pulse, 00 b1 b2 b3 is a 24-bit pulse,
\* a zero with fewer than 3 bytes after it ends the loop
RECURSIVE PulsesFrom(_, _)
PulsesFrom(stream, i) ==
    IF i >= Len(stream) THEN <<>>
    ELSE IF At(stream, i) # 0 THEN <<At(stream, i)>> \o PulsesFrom(stream, i + 1)
    ELSE IF RecordCut(stream, i) THEN <<>>
    ELSE <<RecordValue(stream, i)>> \o PulsesFrom(stream, i + 4)

read_tap_v1_pulses(b) == PulsesFrom(CaptureStream(b), 0)

PulseMin == 10

PulseMax == 250

InRange(p) == PulseMin <= p /\ p <= PulseMax

\* small = [p for p in pulses if 10 <= p <= 250]
SmallPulses(ps) == SelectSeq(ps, InRange)

RECURSIVE Gcd(_, _)
Gcd(a, b) == IF b = 0 THEN a ELSE Gcd(b, a % b)

\* a center is held as <<num, den>> in lowest terms: the double nearest to
\* num/den, which is what sum(b) / len(b) and float(seed) yield
Rat(num, den) == LET g == Gcd(num, den) IN <<num \div g, den \div g>>

(***************************************************************************)
(* The doubles of kmeans_1d, which classify_short_medium_long calls on the  *)
(* pulses in 10..250 only.  A center is the double nearest to sum/len,     *)
(* which lies in [10, 250]; a pulse is an integer in 10..250.  Every such   *)
(* double, and every exact difference of two of them, is a multiple of     *)
(* 2^-49 below 2^8: it is held as <<hi, lo>> with value                    *)
(* (hi * 2^28 + lo) / 2^49 and 0 <= lo < 2^28.                              *)
(***************************************************************************)
LimbBase == 268435456

FNorm(hi, lo) == <<hi + lo \div LimbBase, lo % LimbBase>>

\* the number of bits of the 53-bit significand that lie below 2^-45:
\* 4 for a value in [8,16), 3 in [16,32), 2 in [32,64), 1 in [64,128), else 0
LowBits(whole) ==
    IF whole < 16 THEN 4 ELSE IF whole < 32 THEN 3 ELSE IF whole < 64 THEN 2
    ELSE IF whole < 128 THEN 1 ELSE 0

\* float(v) of an integer
FloatOfInt(v) == <<v * 2097152, 0>>

\* the double sum(b) / len(b): the quotient to 53 significant bits, rounded to
\* nearest, ties to even; c = <<num, den>> with 8 <= num/den < 256, den < 2^16
FloatOf(c) ==
    LET q == c[2]
        whole == c[1] \div q
        r0 == c[1] % q
        f1 == (r0 * 32768) \div q
        r1 == (r0 * 32768) % q
        f2 == (r1 * 32768) \div q
        r2 == (r1 * 32768) % q
        f3 == (r2 * 32768) \div q
        r3 == (r2 * 32768) % q
        s == LowBits(whole)
        f4 == (r3 * Pow2(s)) \div q
        r4 == (r3 * Pow2(s)) % q
        odd == IF s > 0 THEN f4 % 2 = 1 ELSE f3 % 2 = 1
        up == IF 2 * r4 > q THEN 1 ELSE IF 2 * r4 = q /\ odd THEN 1 ELSE 0
    IN FNorm(whole * 2097152 + f1 * 64 + f2 \div 512,
             (f2 % 512) * 524288 + f3 * 16 + (f4 + up) * Pow2(4 - s))

FLess(x, y) == IF x[1] = y[1] THEN x[2] < y[2] ELSE x[1] < y[1]

\* the exact value of abs(x - y)
FAbsDiff(x, y) ==
    LET a == IF FLess(x, y) THEN y ELSE x
        b == IF FLess(x, y) THEN x ELSE y
    IN IF a[2] >= b[2] THEN <<a[1] - b[1], a[2] - b[2]>>
       ELSE <<a[1] - b[1] - 1, a[2] + LimbBase - b[2]>>

\* the double nearest to d, ties to even: d below 2^53 units is a double;
\* above, the lowest 1 to 4 bits are rounded away
FRound(d) ==
    LET t == IF d[1] < 33554432 THEN 0 ELSE IF d[1] < 67108864 THEN 1
             ELSE IF d[1] < 134217728 THEN 2 ELSE IF d[1] < 268435456 THEN 3 ELSE 4
        m == Pow2(t)
        low == d[2] % m
        up == IF 2 * low > m THEN 1
              ELSE IF 2 * low = m /\ (d[2] \div m) % 2 = 1 THEN 1 ELSE 0
    IN IF t = 0 THEN d ELSE FNorm(d[1], d[2] - low + up * m)

\* abs(v - c): the integer v minus the double c, rounded to a double
DistTo(v, c) == FRound(FAbsDiff(FloatOfInt(v), FloatOf(c)))

\* min(range(k), key=lambda i: abs(v - centers[i])): the lowest index among the nearest
Nearest(v, cs) ==
    LET d1 == DistTo(v, cs[1])
        d2 == DistTo(v, cs[2])
        d3 == DistTo(v, cs[3])
    IN IF ~FLess(d2, d1) /\ ~FLess(d3, d1) THEN 0
       ELSE IF ~FLess(d3, d2) THEN 1
       ELSE 2

\* mutant of Seeds: the seeds are taken from the list as given, not sorted
SeedsUnsorted(values) ==
    <<Rat(At(values, Len(values) \div 4), 1),
      Rat(At(values, (2 * Len(values)) \div 4), 1),
      Rat(At(values, (3 * Len(values)) \div 4), 1)>>

\* seeds = [vs[int((i + 1) * len(vs) / (k + 1))] for i in range(k)]
Seeds(values) ==
    LET vs == SortSeq(values, LAMBDA a, b : a < b)
    IN <<Rat(At(vs, Len(vs) \div 4), 1),
         Rat(At(vs, (2 * Len(vs)) \div 4), 1),
         Rat(At(vs, (3 * Len(vs)) \div 4), 1)>>

RECURSIVE SumSeq(_, _)
SumSeq(sq, k) == IF k > Len(sq) THEN 0 ELSE sq[k] + SumSeq(sq, k + 1)

\* the mean of bucket j, the old center for an empty bucket
BucketMean(values, cs, j) ==
    LET bucket == SelectSeq(values, LAMBDA v : Nearest(v, cs) = j)
    IN IF bucket = <<>> THEN cs[j + 1] ELSE Rat(SumSeq(bucket, 1), Len(bucket))

\* new_centers
NewCenters(values, cs) ==
    <<BucketMean(values, cs, 0), BucketMean(values, cs, 1), BucketMean(values, cs, 2)>>

\* abs(new_centers[i] - centers[i]) < 1e-6
\* the double 1e-6 lies between 562949953 and 562949954 units of 2^-49
CenterSettled(a, b) ==
    LET d == FAbsDiff(FloatOf(a), FloatOf(b))
    IN IF d[1] < 2 THEN TRUE ELSE d[1] = 2 /\ d[2] <= 26079041

Converged(new, cs) == \A i \in 1..3 : CenterSettled(new[i], cs[i])

KMeansIters == 40

\* "for _ in range(iters)": break keeps the centers of the round before
RECURSIVE KMeansFrom(_, _, _)
KMeansFrom(values, cs, round) ==
    IF round >= KMeansIters THEN cs
    ELSE LET new == NewCenters(values, cs)
         IN IF Converged(new, cs) THEN cs ELSE KMeansFrom(values, new, round + 1)

\* sorted(centers)
SortCenters(cs) == SortSeq(cs, LAMBDA a, b : FLess(FloatOf(a), FloatOf(b)))

kmeans_1d(values) == SortCenters(KMeansFrom(values, Seeds(values), 0))

\* cat(p): None outside 10..250, else the index of the nearest center
CatOf(p, cs) == IF p < PulseMin \/ p > PulseMax THEN NoneCat ELSE Nearest(p, cs)

\* classify_short_medium_long raises ValueError when nothing is clusterable
ClassifyFails(ps) == SmallPulses(ps) = <<>>

ClassifyCenters(ps) == kmeans_1d(SmallPulses(ps))

ClassifyCats(ps, cs) == [k \in 1..Len(ps) |-> CatOf(ps[k], cs)]

(***************************************************************************)
(* tap_find_basic_prg.py: find_eol, score_basic_candidate, find_best_basic *)
(***************************************************************************)
\* find_eol(buf, start, limit)
find_eol(buf, start, limit) == FindZero(buf, start, Min2(Len(buf), start + limit))

EolLimit == 512

LoadMin == 1024

LoadMax == 16384

MaxLineNumber == 63999

MinLines == 3

MaxPenalty == 400

MaxScoreLines == 5000

\* the tail of the stream that find_best_basic's range leaves out
ScanMargin == 4096

\* score_basic_candidate returning None
NoCandidate == <<>>

\* closeness = max(0, 40 - (abs(load - 0x1001) // 16))
Closeness(load) == Max2(0, 40 - (Abs(load - 4097) \div 16))

\* "if lines > 0 and lnum < last_lnum: total_penalty += 10", before find_eol
GlitchPenalty(lines, lnum, last_lnum) == IF lines > 0 /\ lnum < last_lnum THEN 10 ELSE 0

\* total_penalty after one line
LinePenalty(off, load, lines, penalty, last_lnum, last_nextptr, nextptr, lnum, eol) ==
    LET mismatch == Abs((off + 2 + (nextptr - load)) - (eol + 1))
    IN penalty
         + GlitchPenalty(lines, lnum, last_lnum)
         + (IF mismatch > 64 THEN 25 ELSE IF mismatch > 0 THEN mismatch \div 4 ELSE 0)
         + (IF nextptr <= last_nextptr THEN 15 ELSE 0)

\* mutant of ScoreValue: a line is worth 5, not 50
ScoreValueFlat(lines, load, penalty) == lines * 5 + Closeness(load) - penalty

\* score = lines * 50 + closeness - total_penalty
ScoreValue(lines, load, penalty) == lines * 50 + Closeness(load) - penalty

\* mutant of EnoughLines: one line is enough
EnoughLinesOne(lines) == lines >= 1

\* "if lines >= 3"
EnoughLines(lines) == lines >= MinLines

\* "if not (0x0400 <= load <= 0x4000)"
LoadInRange(load) == LoadMin <= load /\ load <= LoadMax

\* the loop "for _ in range(5000)" from line record p on; the result is
\* <<score, load, end_off, lines>> or NoCandidate
RECURSIVE ScoreFrom(_, _, _, _, _, _, _, _, _)
ScoreFrom(buf, off, load, p, lines, penalty, last_lnum, last_nextptr, iter) ==
    IF iter >= MaxScoreLines THEN NoCandidate
    ELSE IF p + 4 >= Len(buf) THEN NoCandidate
    ELSE IF u16le(buf, p) = 0
         THEN (IF EnoughLines(lines)
               THEN <<ScoreValue(lines, load, penalty), load, p + 4, lines>>
               ELSE NoCandidate)
    ELSE IF u16le(buf, p + 2) > MaxLineNumber THEN NoCandidate
    ELSE IF find_eol(buf, p + 4, EolLimit) = -1 THEN NoCandidate
    ELSE LET eol == find_eol(buf, p + 4, EolLimit)
             pen == LinePenalty(off, load, lines, penalty, last_lnum, last_nextptr,
                                u16le(buf, p), u16le(buf, p + 2), eol)
         IN IF pen > MaxPenalty THEN NoCandidate
            ELSE ScoreFrom(buf, off, load, eol + 1, lines + 1, pen,
                           u16le(buf, p + 2), u16le(buf, p), iter + 1)

score_basic_candidate(buf, off) ==
    IF off + 10 >= Len(buf) THEN NoCandidate
    ELSE IF ~LoadInRange(u16le(buf, off)) THEN NoCandidate
    ELSE ScoreFrom(buf, off, u16le(buf, off), off + 2, 0, 0, -1, u16le(buf, off), 0)

\* range(0, max(0, len(buf) - 4096)): the offsets the scan visits are 0..ScanEnd-1
ScanEnd(buf) == Max2(0, Len(buf) - ScanMargin)

\* "if best is None or score > best[0]"
Replaces(r, best) == IF best = <<>> THEN TRUE ELSE r[1] > best[1]

\* best after the candidate r at offset off
BestAfter(best, r, off) ==
    IF r # NoCandidate /\ Replaces(r, best) THEN <<r[1], off, r[2], r[3], r[4]>> ELSE best

RECURSIVE FindBestFrom(_, _, _)
FindBestFrom(buf, off, best) ==
    IF off >= ScanEnd(buf) THEN best
    ELSE FindBestFrom(buf, off + 1, BestAfter(best, score_basic_candidate(buf, off), off))

\* find_best_basic: <<>> stands for the RuntimeError, else (off, load, end_off, lines)
find_best_basic(buf) ==
    LET best == FindBestFrom(buf, 0, <<>>)
    IN IF best = <<>> THEN <<>> ELSE <<best[2], best[3], best[4], best[5]>>

(***************************************************************************)
(* Synthetic category streams (spec section 8): per byte a sync marker     *)
(* (Long, then Short or Medium) and eight bit pairs, LSB first.            *)
(***************************************************************************)
EncodeBit(bit) == IF bit = 1 THEN <<CatM, CatS>> ELSE <<CatS, CatM>>

EncodeByte(x, second) ==
    <<CatL, second>> \o Concat([k \in 1..8 |-> EncodeBit(BitOf(x, k - 1))])

RECURSIVE EncodeBytes(_, _)
EncodeBytes(bs, second) ==
    IF bs = <<>> THEN <<>>
    ELSE EncodeByte(Head(bs), second) \o EncodeBytes(Tail(bs), second)

\* ---- bounds and input samples of the decoder specification ----
MaxBytes == 5
MaxTailSyms == 1
MaxLeadSyms == 1
ByteSamples == {0, 65, 255}

RECURSIVE SeqsUpTo(_, _)
SeqsUpTo(S, n) ==
    IF n = 0 THEN {<<>>}
    ELSE LET shorter == SeqsUpTo(S, n - 1)
         IN shorter \cup {Append(s, x) : s \in {t \in shorter : Len(t) = n - 1}, x \in S}

\* a stream built from a known byte sequence, optionally preceded and followed
\* by runs of Long symbols that carry no byte (leader tone)
DecInit ==
    /\ dsrc \in SeqsUpTo(ByteSamples, MaxBytes) \ {<<>>}
    /\ dslack \in {SlackBasic, SlackStrings}
    /\ \E second \in {CatS, CatM}, lead \in 0..MaxLeadSyms, t \in 0..MaxTailSyms :
          cats = Repeat(CatL, lead) \o EncodeBytes(dsrc, second) \o Repeat(CatL, t * dslack)
    /\ di = 0
    /\ dout = <<>>
    /\ dpc = "scan"
    /\ DecOthersIdle

\* a loop iteration that emits a byte
DecodeEmit ==
    /\ dpc = "scan"
    /\ DecodeGuard(cats, di, dslack)
    /\ IsSync(cats, di) /\ PairsOk(cats, di)
    /\ di' = DecodeIter(cats, di, dout).i
    /\ dout' = DecodeIter(cats, di, dout).out
    /\ UNCHANGED <<dsrc, dslack, cats, dpc>>
    /\ UNCHANGED decOthers

\* a loop iteration that rejects the position: "i += 1"
DecodeSkip ==
    /\ dpc = "scan"
    /\ DecodeGuard(cats, di, dslack)
    /\ ~(IsSync(cats, di) /\ PairsOk(cats, di))
    /\ di' = DecodeIter(cats, di, dout).i
    /\ dout' = DecodeIter(cats, di, dout).out
    /\ UNCHANGED <<dsrc, dslack, cats, dpc>>
    /\ UNCHANGED decOthers

\* the loop guard fails: "return bytes(out)"
DecodeExit ==
    /\ dpc = "scan"
    /\ ~DecodeGuard(cats, di, dslack)
    /\ dpc' = "done"
    /\ UNCHANGED <<dsrc, dslack, cats, di, dout>>
    /\ UNCHANGED decOthers

DecNext == DecodeEmit \/ DecodeSkip \/ DecodeExit

SpecDecode == DecInit /\ [][DecNext]_vars

(***************************************************************************)
(* The decoder over arbitrary category sequences: short ones, Unknown      *)
(* symbols, frames with one symbol replaced, filler of every category.     *)
(***************************************************************************)
MaxFillRuns == 1

AllCats == {CatS, CatM, CatL, NoneCat}

LeadSamples == {<<>>, <<NoneCat>>, <<CatL>>, <<CatL, CatS>>, <<CatM, CatS>>}

\* 1-based positions of a frame at which a symbol is replaced; 0: none
DamagePositions == {0, 1, 2, 3, 4, 10, 17, 18}

Damaged(frame, pos, sym) == IF pos = 0 THEN frame ELSE [frame EXCEPT ![pos] = sym]

DecAnyInit ==
    /\ dsrc = <<>>
    /\ dslack \in {SlackBasic, SlackStrings}
    /\ \E lead \in LeadSamples, frames \in 0..2, second \in {CatS, CatM},
          pos \in DamagePositions, sym \in AllCats, fill \in AllCats, runs \in 0..MaxFillRuns :
          cats = lead
                   \o (IF frames >= 1 THEN Damaged(EncodeByte(65, second), pos, sym) ELSE <<>>)
                   \o (IF frames >= 2 THEN EncodeByte(255, second) ELSE <<>>)
                   \o Repeat(fill, runs * dslack + frames)
    /\ di = 0
    /\ dout = <<>>
    /\ dpc = "scan"
    /\ DecOthersIdle

\* the while loop runs on until its guard fails: nothing else is scheduled
SpecDecodeAny == DecAnyInit /\ [][DecNext]_vars /\ WF_vars(DecNext)

(***************************************************************************)
(* Block recovery: decoded streams made of frames (countdown, payload,     *)
(* checksum), optionally preceded by noise bytes, followed by further      *)
(* bytes, or cut short at the end, run through main().                     *)
(***************************************************************************)
MaxFrames == 4
MaxPre == 1
MaxTail == 1
MaxCut == 1

NoiseByte == 238

CopyPatterns == {"AAAA", "BBBB", "ABAB", "BABA"}

HeaderKinds == {"h512", "h100", "hbad", "hbig", "hblank", "none"}

UseCopyChoices == {"A", "B", "AUTO"}

\* frame k (1-based) is a copy-B frame under pattern cp
FrameIsB(cp, k) ==
    \/ cp = "BBBB"
    \/ (cp = "ABAB" /\ k % 2 = 0)
    \/ (cp = "BABA" /\ k % 2 = 1)

NameHello == <<72, 69, 76, 76, 79>> \o Repeat(32, 11)

HeaderBytes(ftype, start, end, name) ==
    <<ftype, start % 256, start \div 256, end % 256, end \div 256>>
        \o name \o Repeat(32, PayloadLen - 21)

HeaderPayloadOf(hk) ==
    IF hk = "h512" THEN HeaderBytes(1, 4097, 4609, NameHello)
    ELSE IF hk = "h100" THEN HeaderBytes(1, 4097, 4197, NameHello)
    ELSE IF hk = "hbad" THEN HeaderBytes(1, 4609, 4097, NameHello)
    ELSE IF hk = "hbig" THEN HeaderBytes(1, 512, 65535, NameHello)
    ELSE HeaderBytes(1, 4097, 4609, Repeat(32, 16))

\* a data payload; every second one carries a countdown sequence inside it
DataPayloadOf(k) ==
    IF k % 2 = 0
    THEN Repeat(16 + k, 100) \o COUNTDOWN_A \o Repeat(16 + k, PayloadLen - 109)
    ELSE Repeat(16 + k, PayloadLen)

PayloadOf(k, hk, hpos) ==
    IF hk # "none" /\ k = hpos THEN HeaderPayloadOf(hk) ELSE DataPayloadOf(k)

\* flip bit `bit` of the byte at 0-based position pos
FlipBit(sq, pos, bit) ==
    [sq EXCEPT ![pos + 1] = IF BitOf(@, bit) = 1 THEN @ - Pow2(bit) ELSE @ + Pow2(bit)]

\* the checksum byte written after each payload
PayloadChecksums ==
    [k \in 1..MaxFrames, hk \in HeaderKinds, hpos \in 1..2 |->
        xor_checksum(PayloadOf(k, hk, hpos))]

\* the frame as written to tape; a damaged frame has one payload bit flipped
\* after its checksum was computed
FrameOf(k, cp, hk, hpos, bad) ==
    LET pl == PayloadOf(k, hk, hpos)
    IN (IF FrameIsB(cp, k) THEN COUNTDOWN_B ELSE COUNTDOWN_A)
          \o (IF k = bad THEN FlipBit(pl, 50, 3) ELSE pl)
          \o <<PayloadChecksums[k, hk, hpos]>>

RECURSIVE FramesFrom(_, _, _, _, _, _)
FramesFrom(k, nfr, cp, hk, hpos, bad) ==
    IF k > nfr THEN <<>>
    ELSE FrameOf(k, cp, hk, hpos, bad) \o FramesFrom(k + 1, nfr, cp, hk, hpos, bad)

\* trail > 0: that many bytes follow the last frame; trail < 0: the stream
\* is cut that many bytes before the end of the last frame
StreamOf(nfr, cp, hk, hpos, bad, pre, trail) ==
    LET body == Repeat(NoiseByte, pre) \o FramesFrom(1, nfr, cp, hk, hpos, bad)
    IN IF trail >= 0 THEN body \o Repeat(NoiseByte, trail)
       ELSE SubSeq(body, 1, Len(body) + trail)

\* how the stream is framed: <<noise bytes before, bytes after (negative: cut), damaged frame>>
Framings(nfr) ==
    {<<0, MaxTail, 0>>, <<0, MaxTail, 1>>, <<0, MaxTail, nfr>>, <<0, 0, 0>>,
     <<0, 0 - MaxCut, 0>>, <<MaxPre, MaxTail, 0>>, <<MaxPre, 0, 0>>, <<MaxPre, MaxTail, 1>>}

\* The two scripts share their code up to find_blocks line for line; which of
\* them runs, and its --use_copy, is drawn where main() first depends on it.
TapeInit ==
    /\ prog = "any"
    /\ use_copy = "unread"
    /\ \E nfr \in 1..MaxFrames, cp \in CopyPatterns, hk \in HeaderKinds, hpos \in 1..2 :
          \E fr \in Framings(nfr) :
             decoded = StreamOf(nfr, cp, hk, hpos, fr[3], fr[1], fr[2])
    /\ blocks = <<>>
    /\ use_blocks = <<>>
    /\ hdr = <<>>
    /\ prg = <<>>
    /\ warned = FALSE
    /\ mpc = "decoded"
    /\ TapeOthersIdle

\* "blocks = find_blocks(decoded); if not blocks: raise RuntimeError"
MainFindBlocks ==
    /\ mpc = "decoded"
    /\ blocks' = find_blocks(decoded)
    /\ mpc' = IF blocks' = <<>> THEN "fatal_noblocks" ELSE "found"
    /\ UNCHANGED <<prog, use_copy, decoded, use_blocks, hdr, prg, warned>>
    /\ UNCHANGED tapeOthers

\* the copy stream; tap_to_basic_blocks.py raises when it is empty
MainSelectCopy ==
    /\ mpc = "found"
    /\ \E pg \in {"basic", "blocks"} :
          \E uc \in (IF pg = "basic" THEN {"AUTO"} ELSE UseCopyChoices) :
             /\ prog' = pg
             /\ use_copy' = uc
             /\ use_blocks' = SelectBlocks(pg, uc, blocks)
    /\ mpc' = IF use_blocks' = <<>> THEN "fatal_nocopy" ELSE "selected"
    /\ UNCHANGED <<decoded, blocks, hdr, prg, warned>>
    /\ UNCHANGED tapeOthers

\* the header: first block (tap_to_basic.py) or best-scoring block
MainChooseHeader ==
    /\ mpc = "selected"
    /\ hdr' = ChooseHeader(prog, use_blocks)
    /\ mpc' = IF hdr'.index = -1 THEN "fatal_header" ELSE "header"
    /\ UNCHANGED <<prog, use_copy, decoded, blocks, use_blocks, prg, warned>>
    /\ UNCHANGED tapeOthers

\* assemble, warn on a shortfall, truncate, prepend the start address, write
MainAssemble ==
    /\ mpc = "header"
    /\ warned' = ShortfallWarned(prog, use_blocks, hdr)
    /\ prg' = PackImage(hdr.start, Assembled(use_blocks, hdr))
    /\ mpc' = "written"
    /\ UNCHANGED <<prog, use_copy, decoded, blocks, use_blocks, hdr>>
    /\ UNCHANGED tapeOthers

TapeNext == MainFindBlocks \/ MainSelectCopy \/ MainChooseHeader \/ MainAssemble

SpecTape == TapeInit /\ [][TapeNext]_vars

(***************************************************************************)
(* The detokeniser run byte by byte over one line body.                    *)
(***************************************************************************)
MaxBody == 4

\* quote, PRINT, "A", space, shifted space / CLOSE, GO (a token of
\* prg_to_listing.py only), a high byte in no table, and the terminator
BodySamples == {34, 153, 65, 32, 160, 203, 255, 0}

DetokInit ==
    /\ tvariant \in {"line", "listing"}
    /\ tbody \in SeqsUpTo(BodySamples, MaxBody)
    /\ ti = 0
    /\ tinq = FALSE
    /\ tout = <<>>
    /\ ttext = <<>>
    /\ tpc = "scan"
    /\ DetokOthersIdle

DetokAdvance(branch) ==
    /\ tpc = "scan"
    /\ ~DetokStops(tvariant, tbody, ti)
    /\ DetokBranch(tvariant, At(tbody, ti), tinq) = branch
    /\ tout' = Append(tout, DetokPiece(tvariant, At(tbody, ti), tinq))
    /\ tinq' = DetokQuotes(At(tbody, ti), tinq)
    /\ ti' = ti + 1
    /\ UNCHANGED <<tvariant, tbody, ttext, tpc>>
    /\ UNCHANGED detokOthers

\* "if b == 0x22: in_quotes = not in_quotes; out.append('"')"
DetokQuote == DetokAdvance("quote")

\* "out.append(TOK.get(b, ...))" / "out.append(TOKENS[b])"
DetokKeyword == DetokAdvance("keyword")

\* "out.append(petscii_best_ascii_byte(b))" / "out.append(petscii_to_ascii(b))"
DetokText == DetokAdvance("text")

\* the loop ends: join (and, in detokenise_line, collapse white space)
DetokFinish ==
    /\ tpc = "scan"
    /\ DetokStops(tvariant, tbody, ti)
    /\ ttext' = DetokFinal(tvariant, tout)
    /\ tpc' = "done"
    /\ UNCHANGED <<tvariant, tbody, ti, tinq, tout>>
    /\ UNCHANGED detokOthers

DetokNext == DetokQuote \/ DetokKeyword \/ DetokText \/ DetokFinish

SpecDetok == DetokInit /\ [][DetokNext]_vars

(***************************************************************************)
(* prg_to_listing run line by line over program images whose pointers may  *)
(* be right, zero, or corrupted in several ways.                           *)
(***************************************************************************)
MaxImageLines == 3

LoadSample == 4097

\* what a line's next_pointer holds: the address after its terminator ("ok"),
\* 0, its own address, the first line's address, an address inside the next
\* line, one past the image, one far beyond it, one below the load address
PtrKinds == {"ok", "zero", "self", "back", "skip", "end", "far", "neg"}

NumberOrders == {"asc", "desc"}

Trailers == {<<>>, <<0, 0>>}

\* line k's body: PRINT"A" or a bare REM
BodyOfLine(k) == IF k % 2 = 1 THEN <<153, 34, 65, 34>> ELSE <<143>>

LineLen(k) == 4 + Len(BodyOfLine(k)) + 1

RECURSIVE LineStart(_)
LineStart(k) == IF k = 1 THEN 2 ELSE LineStart(k - 1) + LineLen(k - 1)

PtrValue(kind, k, total) ==
    IF kind = "ok" THEN LoadSample + (LineStart(k) + LineLen(k)) - 2
    ELSE IF kind = "zero" THEN 0
    ELSE IF kind = "self" THEN LoadSample + LineStart(k) - 2
    ELSE IF kind = "back" THEN LoadSample
    ELSE IF kind = "skip" THEN LoadSample + (LineStart(k) + LineLen(k)) + 1
    ELSE IF kind = "end" THEN LoadSample + total - 2
    ELSE IF kind = "far" THEN LoadSample + total + 300
    ELSE LoadSample - 3

LineNumber(order, k, n) == IF order = "asc" THEN 10 * k ELSE 10 * (n + 1 - k)

U16Bytes(v) == <<v % 256, v \div 256>>

RECURSIVE ImageLines(_, _, _, _, _)
ImageLines(k, n, kinds, order, total) ==
    IF k > n THEN <<>>
    ELSE U16Bytes(PtrValue(kinds[k], k, total)) \o U16Bytes(LineNumber(order, k, n))
            \o BodyOfLine(k) \o <<0>> \o ImageLines(k + 1, n, kinds, order, total)

ImageOf(n, kinds, order, trailer) ==
    U16Bytes(LoadSample)
        \o ImageLines(1, n, kinds, order, LineStart(n + 1) + Len(trailer))
        \o trailer

ListInit ==
    /\ lmode \in {"pointer", "eol"}
    /\ \E n \in 1..MaxImageLines, order \in NumberOrders, trailer \in Trailers :
          \E kinds \in [1..n -> PtrKinds] :
             limg = ImageOf(n, kinds, order, trailer)
    /\ loff = 2
    /\ liter = 0
    /\ llines = <<>>
    /\ lnext = -1
    /\ lvisited = <<2>>
    /\ ltext = <<>>
    /\ lpc = "run"
    /\ ListOthersIdle

\* a line is emitted and the traversal moves on to the next offset
ListLine ==
    /\ lpc = "run"
    /\ ~ListBreaks(limg, loff, liter)
    /\ ~ListEndsAfter(lmode, limg, loff)
    /\ llines' = Append(llines, ListLineAt(limg, loff))
    /\ lnext' = ListNextOff(lmode, limg, loff)
    /\ loff' = lnext'
    /\ lvisited' = Append(lvisited, lnext')
    /\ liter' = liter + 1
    /\ UNCHANGED <<lmode, limg, ltext, lpc>>
    /\ UNCHANGED listOthers

\* a line is emitted, its next offset is rejected: "break", join, return
ListLastLine ==
    /\ lpc = "run"
    /\ ~ListBreaks(limg, loff, liter)
    /\ ListEndsAfter(lmode, limg, loff)
    /\ llines' = Append(llines, ListLineAt(limg, loff))
    /\ lnext' = ListNextOff(lmode, limg, loff)
    /\ ltext' = ListingText(llines')
    /\ lpc' = "done"
    /\ UNCHANGED <<lmode, limg, loff, liter, lvisited>>
    /\ UNCHANGED listOthers

\* the loop leaves without a line: join, return
ListStop ==
    /\ lpc = "run"
    /\ ListBreaks(limg, loff, liter)
    /\ ltext' = ListingText(llines)
    /\ lpc' = "done"
    /\ UNCHANGED <<lmode, limg, loff, liter, llines, lnext, lvisited>>
    /\ UNCHANGED listOthers

ListNext == ListLine \/ ListLastLine \/ ListStop

SpecListing == ListInit /\ [][ListNext]_vars

(***************************************************************************)
(* Read, classify and decode a capture file.  The captures hold a stream   *)
(* encoded from known bytes, with or without leader and trailer pulses,    *)
(* long-pulse records and a damaged header.                                *)
(***************************************************************************)
MaxCapBytes == 2

\* pulse durations for Short, Medium, Long
PulseS == 48

PulseM == 66

PulseL == 86

\* symbols of trailing tone that put a whole byte inside the decoder's margin
TrailSyms == 43

CapSamples == {65, 255}

HeaderFaults == {"ok", "badsig", "badver", "short", "lenshort", "lenlong"}

\* what follows the pulses: nothing, a 4-byte long-pulse record, a cut record
StreamTails == {<<>>, <<0, 1, 2, 0>>, <<0, 5>>}

PulseOf(c, jitter, k) ==
    (IF c = CatS THEN PulseS ELSE IF c = CatM THEN PulseM ELSE PulseL) + jitter * (k % 2)

PulseBytes(cs, jitter) == [k \in 1..Len(cs) |-> PulseOf(cs[k], jitter, k)]

U32Bytes(v) == <<v % 256, (v \div 256) % 256, (v \div 65536) % 256, v \div 16777216>>

CaptureOf(fault, stream) ==
    LET sig == IF fault = "badsig" THEN [TAP_SIG EXCEPT ![12] = 88] ELSE TAP_SIG
        ver == IF fault = "badver" THEN 0 ELSE 1
        n == IF fault = "lenshort" THEN Max2(0, Len(stream) - 1)
             ELSE IF fault = "lenlong" THEN Len(stream) + 70000
             ELSE Len(stream)
        whole == sig \o <<ver, 0, 0, 0>> \o U32Bytes(n) \o stream
    IN IF fault = "short" THEN SubSeq(whole, 1, HeaderSize - 1) ELSE whole

CapInit ==
    /\ cslack \in {SlackBasic, SlackStrings}
    /\ \E src \in SeqsUpTo(CapSamples, MaxCapBytes), second \in {CatS, CatM},
          lead \in 0..1, trail \in {0, TrailSyms}, jitter \in 0..1,
          tail \in StreamTails, fault \in HeaderFaults :
          capture = CaptureOf(fault,
                       PulseBytes(Repeat(CatL, lead) \o EncodeBytes(src, second)
                                     \o Repeat(CatL, trail), jitter) \o tail)
    /\ pulses = <<>>
    /\ centers = <<>>
    /\ ccats = <<>>
    /\ cdecoded = <<>>
    /\ cpc = "start"
    /\ cerr = "none"
    /\ CapOthersIdle

\* pulses = read_tap_v1_pulses(args.tap)
CapRead ==
    /\ cpc = "start"
    /\ ~ReadFails(capture)
    /\ pulses' = read_tap_v1_pulses(capture)
    /\ cpc' = "read"
    /\ UNCHANGED <<capture, cslack, centers, ccats, cdecoded, cerr>>
    /\ UNCHANGED capOthers

\* ValueError: bad signature or unsupported version
CapReadFatal ==
    /\ cpc = "start"
    /\ ReadFails(capture)
    /\ cpc' = "fatal_format"
    /\ cerr' = ValueError
    /\ UNCHANGED <<capture, cslack, pulses, centers, ccats, cdecoded>>
    /\ UNCHANGED capOthers

\* cats, centers = classify_short_medium_long(pulses)
CapClassify ==
    /\ cpc = "read"
    /\ ~ClassifyFails(pulses)
    /\ centers' = ClassifyCenters(pulses)
    /\ ccats' = ClassifyCats(pulses, centers')
    /\ cpc' = "classified"
    /\ UNCHANGED <<capture, cslack, pulses, cdecoded, cerr>>
    /\ UNCHANGED capOthers

\* ValueError: no clusterable pulses
CapClassifyFatal ==
    /\ cpc = "read"
    /\ ClassifyFails(pulses)
    /\ cpc' = "fatal_nopulses"
    /\ cerr' = ValueError
    /\ UNCHANGED <<capture, cslack, pulses, centers, ccats, cdecoded>>
    /\ UNCHANGED capOthers

\* decoded = decode_bytes_from_pulse_categories(cats)
CapDecode ==
    /\ cpc = "classified"
    /\ cdecoded' = decode_bytes_from_pulse_categories(ccats, cslack)
    /\ cpc' = "decoded"
    /\ UNCHANGED <<capture, cslack, pulses, centers, ccats, cerr>>
    /\ UNCHANGED capOthers

\* tap_find_basic_prg.py: best_off, load, end_off, line_count = find_best_basic(decoded)
CapLocate ==
    /\ cpc = "decoded"
    /\ cslack = SlackBasic
    /\ cpc' = IF find_best_basic(cdecoded) = <<>> THEN "fatal_nocandidate" ELSE "located"
    /\ cerr' = IF find_best_basic(cdecoded) = <<>> THEN RuntimeError ELSE "none"
    /\ UNCHANGED <<capture, cslack, pulses, centers, ccats, cdecoded>>
    /\ UNCHANGED capOthers

CapNext ==
    CapRead \/ CapReadFatal \/ CapClassify \/ CapClassifyFatal \/ CapDecode \/ CapLocate

SpecCapture == CapInit /\ [][CapNext]_vars

(***************************************************************************)
(* find_best_basic scanning decoded streams that hold up to two program    *)
(* images, before or after a run of filler bytes.                          *)
(***************************************************************************)
MaxLocLead == 1

\* program images: <<number of lines, line number order, pointer of line 1>>
ProgramKinds ==
    {<<n, v[1], v[2]>> : n \in {2, 3, 4}, v \in {<<"asc", "ok">>, <<"desc", "ok">>, <<"asc", "far">>}}

ProgramOf(k) ==
    IF k = <<>> THEN <<>>
    ELSE ImageOf(k[1], [i \in 1..k[1] |-> IF i = 1 THEN k[3] ELSE "ok"], k[2], <<0, 0>>)

\* filler lengths: none, less than the scan margin, more than the scan margin
PadLengths == {0, ScanMargin - 20, ScanMargin + 1}

BufferOf(lead, a, b, pad, side) ==
    LET progs == Repeat(NoiseByte, lead) \o ProgramOf(a) \o ProgramOf(b)
    IN IF side = "front" THEN progs \o Repeat(NoiseByte, pad)
       ELSE Repeat(NoiseByte, pad) \o progs

LocInit ==
    /\ \E lead \in 0..MaxLocLead, a \in ProgramKinds, b \in ProgramKinds \cup {<<>>},
          pad \in PadLengths, side \in {"front", "back"} :
          fbuf = BufferOf(lead, a, b, pad, side)
    /\ foff = 0
    /\ fbest = <<>>
    /\ fpc = "scan"
    /\ LocOthersIdle

\* the candidate at off replaces best
LocTake ==
    /\ fpc = "scan"
    /\ foff < ScanEnd(fbuf)
    /\ score_basic_candidate(fbuf, foff) # NoCandidate
    /\ Replaces(score_basic_candidate(fbuf, foff), fbest)
    /\ fbest' = BestAfter(fbest, score_basic_candidate(fbuf, foff), foff)
    /\ foff' = foff + 1
    /\ UNCHANGED <<fbuf, fpc>>
    /\ UNCHANGED locOthers

\* the candidate at off does not score strictly higher than best
LocKeep ==
    /\ fpc = "scan"
    /\ foff < ScanEnd(fbuf)
    /\ score_basic_candidate(fbuf, foff) # NoCandidate
    /\ ~Replaces(score_basic_candidate(fbuf, foff), fbest)
    /\ foff' = foff + 1
    /\ UNCHANGED <<fbuf, fbest, fpc>>
    /\ UNCHANGED locOthers

\* no candidate at off
LocSkip ==
    /\ fpc = "scan"
    /\ foff < ScanEnd(fbuf)
    /\ score_basic_candidate(fbuf, foff) = NoCandidate
    /\ foff' = foff + 1
    /\ UNCHANGED <<fbuf, fbest, fpc>>
    /\ UNCHANGED locOthers

\* return off, load, end_off, lines
LocReturn ==
    /\ fpc = "scan"
    /\ foff >= ScanEnd(fbuf)
    /\ fbest # <<>>
    /\ fpc' = "found"
    /\ UNCHANGED <<fbuf, foff, fbest>>
    /\ UNCHANGED locOthers

\* RuntimeError: no plausible program
LocFatal ==
    /\ fpc = "scan"
    /\ foff >= ScanEnd(fbuf)
    /\ fbest = <<>>
    /\ fpc' = "fatal_nocandidate"
    /\ UNCHANGED <<fbuf, foff, fbest>>
    /\ UNCHANGED locOthers

LocNext == LocTake \/ LocKeep \/ LocSkip \/ LocReturn \/ LocFatal

SpecLocate == LocInit /\ [][LocNext]_vars

(***************************************************************************)
(* classify_short_medium_long with kmeans_1d run round by round, over      *)
(* every pulse list up to MaxPulses drawn from values below, at the edges  *)
(* of, inside and above the clusterable range, and over lists in which a   *)
(* pulse lies midway between two bucket means that are not doubles.        *)
(***************************************************************************)
MaxPulses == 4

ClusterSamples == {5, 10, 50, 52, 250, 300}

\* 14 between 35/3 and 49/3; 60 between 80/3 and 280/3; 57 between 146/3 and
\* 196/3; the second list also reversed and sorted
MidwayLists ==
    {<<12, 19, 16, 11, 14, 30, 12>>,
     <<10, 10, 60, 94, 93, 93, 250, 250>>,
     <<250, 250, 93, 93, 94, 60, 10, 10>>,
     <<10, 10, 60, 93, 93, 94, 250, 250>>,
     <<81, 50, 48, 181, 57, 48, 58>>}

ClusterInit ==
    /\ kpulses \in SeqsUpTo(ClusterSamples, MaxPulses) \cup MidwayLists
    /\ kcent = <<>>
    /\ kround = 0
    /\ kresult = <<>>
    /\ kcats = <<>>
    /\ kpc = "start"
    /\ CluOthersIdle

\* small is not empty: kmeans_1d sorts and seeds
KStart ==
    /\ kpc = "start"
    /\ ~ClassifyFails(kpulses)
    /\ kcent' = Seeds(SmallPulses(kpulses))
    /\ kpc' = "loop"
    /\ UNCHANGED <<kpulses, kround, kresult, kcats>>
    /\ UNCHANGED cluOthers

\* ValueError: no clusterable pulses
KFail ==
    /\ kpc = "start"
    /\ ClassifyFails(kpulses)
    /\ kpc' = "fatal_nopulses"
    /\ UNCHANGED <<kpulses, kcent, kround, kresult, kcats>>
    /\ UNCHANGED cluOthers

\* one round that moves a center: centers = new_centers
KStep ==
    /\ kpc = "loop"
    /\ kround < KMeansIters
    /\ ~Converged(NewCenters(SmallPulses(kpulses), kcent), kcent)
    /\ kcent' = NewCenters(SmallPulses(kpulses), kcent)
    /\ kround' = kround + 1
    /\ UNCHANGED <<kpulses, kresult, kcats, kpc>>
    /\ UNCHANGED cluOthers

\* the loop ends (break, or the rounds are used up): return sorted(centers)
KFinish ==
    /\ kpc = "loop"
    /\ IF kround >= KMeansIters THEN TRUE
       ELSE Converged(NewCenters(SmallPulses(kpulses), kcent), kcent)
    /\ kresult' = SortCenters(kcent)
    /\ kpc' = "clustered"
    /\ UNCHANGED <<kpulses, kcent, kround, kcats>>
    /\ UNCHANGED cluOthers

\* return [cat(p) for p in pulses], centers
KClassify ==
    /\ kpc = "clustered"
    /\ kcats' = ClassifyCats(kpulses, kresult)
    /\ kpc' = "classified"
    /\ UNCHANGED <<kpulses, kcent, kround, kresult>>
    /\ UNCHANGED cluOthers

ClusterNext == KStart \/ KFail \/ KStep \/ KFinish \/ KClassify

SpecCluster == ClusterInit /\ [][ClusterNext]_vars

(***************************************************************************)
(* read_tap_v1_pulses run byte by byte over every stream up to MaxStream   *)
(* bytes, inside captures whose header is sound, names a shorter stream,   *)
(* or names another version.                                               *)
(***************************************************************************)
MaxStream == 6

StreamSamples == {0, 1, 48, 255}

ReaderInit ==
    /\ \E st \in SeqsUpTo(StreamSamples, MaxStream), fault \in {"ok", "lenshort", "badver"} :
          rcap = CaptureOf(fault, st)
    /\ rstream = <<>>
    /\ ri = 0
    /\ rpulses = <<>>
    /\ rfrom = <<>>
    /\ rpc = "open"
    /\ RdOthersIdle

\* the signature and version are right: stream = b[20:20 + data_len]
ROpen ==
    /\ rpc = "open"
    /\ ~ReadFails(rcap)
    /\ rstream' = CaptureStream(rcap)
    /\ rpc' = "scan"
    /\ UNCHANGED <<rcap, ri, rpulses, rfrom>>
    /\ UNCHANGED rdOthers

\* ValueError
ROpenFatal ==
    /\ rpc = "open"
    /\ ReadFails(rcap)
    /\ rpc' = "fatal_format"
    /\ UNCHANGED <<rcap, rstream, ri, rpulses, rfrom>>
    /\ UNCHANGED rdOthers

\* x != 0: pulses.append(x); i += 1
RByte ==
    /\ rpc = "scan"
    /\ ri < Len(rstream)
    /\ At(rstream, ri) # 0
    /\ rpulses' = Append(rpulses, At(rstream, ri))
    /\ rfrom' = Append(rfrom, <<ri, 1>>)
    /\ ri' = ri + 1
    /\ UNCHANGED <<rcap, rstream, rpc>>
    /\ UNCHANGED rdOthers

\* x == 0 and the record is whole: pulses.append(v); i += 4
RRecord ==
    /\ rpc = "scan"
    /\ ri < Len(rstream)
    /\ At(rstream, ri) = 0
    /\ ~RecordCut(rstream, ri)
    /\ rpulses' = Append(rpulses, RecordValue(rstream, ri))
    /\ rfrom' = Append(rfrom, <<ri, 4>>)
    /\ ri' = ri + 4
    /\ UNCHANGED <<rcap, rstream, rpc>>
    /\ UNCHANGED rdOthers

\* the loop ends: the stream is used up, or a cut record: break
RStop ==
    /\ rpc = "scan"
    /\ IF ri >= Len(rstream) THEN TRUE
       ELSE At(rstream, ri) = 0 /\ RecordCut(rstream, ri)
    /\ rpc' = "done"
    /\ UNCHANGED <<rcap, rstream, ri, rpulses, rfrom>>
    /\ UNCHANGED rdOthers

ReaderNext == ROpen \/ ROpenFatal \/ RByte \/ RRecord \/ RStop

SpecReader == ReaderInit /\ [][ReaderNext]_vars

(***************************************************************************)
(* score_basic_candidate run line by line over program images of one to    *)
(* MaxProgLines lines, sound or damaged, at several load addresses.        *)
(***************************************************************************)
MaxProgLines == 10

\* load addresses: below, at the edges of, inside and above the accepted range
ScoreLoads == {1023, 1024, 4097, 4609, 16384, 16385}

\* clean: sound; desc: line numbers fall; skew: pointers 5 too high; far:
\* pointers 100 too high; worst: falling numbers and one far pointer in every
\* line; bignum: the last line is numbered 64000; noeol: the last line has no
\* terminator and nothing follows; lownoeol: the same with falling line
\* numbers; noterm: no program terminator
ScoreProfiles ==
    {"clean", "desc", "skew", "far", "worst", "bignum", "noeol", "lownoeol", "noterm"}

ScorePtr(load, profile, k) ==
    LET right == load + (LineStart(k) + LineLen(k)) - 2
    IN IF profile = "skew" THEN right + 5
       ELSE IF profile = "far" THEN right + 100
       ELSE IF profile = "worst" THEN load + 300
       ELSE right

ScoreLineNumber(profile, k, n) ==
    IF profile \in {"desc", "worst", "lownoeol"} THEN 10 * (n + 1 - k)
    ELSE IF profile = "bignum" /\ k = n THEN 64000
    ELSE 10 * k

RECURSIVE ScoreLines(_, _, _, _)
ScoreLines(k, n, load, profile) ==
    IF k > n THEN <<>>
    ELSE U16Bytes(ScorePtr(load, profile, k)) \o U16Bytes(ScoreLineNumber(profile, k, n))
            \o BodyOfLine(k) \o (IF profile \in {"noeol", "lownoeol"} /\ k = n THEN <<>> ELSE <<0>>)
            \o ScoreLines(k + 1, n, load, profile)

\* lead filler bytes, the image, its terminator, trail filler bytes
ScoreBuffer(lead, load, n, profile, trail) ==
    Repeat(NoiseByte, lead) \o U16Bytes(load) \o ScoreLines(1, n, load, profile)
        \o (IF profile \in {"noeol", "lownoeol", "noterm"} THEN <<>> ELSE <<0, 0>>)
        \o (IF profile \in {"noeol", "lownoeol"} THEN <<>> ELSE Repeat(NoiseByte, trail))

ScoreInit ==
    /\ \E lead \in 0..1, load \in ScoreLoads, n \in 1..MaxProgLines,
          profile \in ScoreProfiles, trail \in {0, 3} :
          /\ sbuf = ScoreBuffer(lead, load, n, profile, trail)
          /\ soff = lead
    /\ sp = 0
    /\ slines = 0
    /\ spen = 0
    /\ slastnum = -1
    /\ slastptr = 0
    /\ siter = 0
    /\ slnums = <<>>
    /\ sres = <<>>
    /\ spc = "start"
    /\ ScOthersIdle

\* the buffer is long enough and the load address in range: set up the loop
SEnter ==
    /\ spc = "start"
    /\ soff + 10 < Len(sbuf)
    /\ LoadInRange(u16le(sbuf, soff))
    /\ sp' = soff + 2
    /\ slastptr' = u16le(sbuf, soff)
    /\ spc' = "loop"
    /\ UNCHANGED <<sbuf, soff, slines, spen, slastnum, siter, slnums, sres>>
    /\ UNCHANGED scOthers

\* return None before the loop
SRefuse ==
    /\ spc = "start"
    /\ IF soff + 10 >= Len(sbuf) THEN TRUE ELSE ~LoadInRange(u16le(sbuf, soff))
    /\ sres' = NoCandidate
    /\ spc' = "rejected"
    /\ UNCHANGED <<sbuf, soff, sp, slines, spen, slastnum, slastptr, siter, slnums>>
    /\ UNCHANGED scOthers

\* the record at p is a line: it can be read, its pointer is not 0, its number
\* is at most 63999 and its terminator is found
LineAt(buf, p, iter) ==
    IF iter >= MaxScoreLines THEN FALSE
    ELSE IF p + 4 >= Len(buf) THEN FALSE
    ELSE IF u16le(buf, p) = 0 THEN FALSE
    ELSE IF u16le(buf, p + 2) > MaxLineNumber THEN FALSE
    ELSE find_eol(buf, p + 4, EolLimit) # -1

\* total_penalty after the line at p
PenaltyAfter ==
    LinePenalty(soff, u16le(sbuf, soff), slines, spen, slastnum, slastptr,
                u16le(sbuf, sp), u16le(sbuf, sp + 2), find_eol(sbuf, sp + 4, EolLimit))

\* one line parsed; the loop goes on, or breaks on a penalty above 400
SLine ==
    /\ spc = "loop"
    /\ LineAt(sbuf, sp, siter)
    /\ spen' = PenaltyAfter
    /\ slastnum' = u16le(sbuf, sp + 2)
    /\ slastptr' = u16le(sbuf, sp)
    /\ slnums' = Append(slnums, u16le(sbuf, sp + 2))
    /\ sp' = find_eol(sbuf, sp + 4, EolLimit) + 1
    /\ slines' = slines + 1
    /\ siter' = siter + 1
    /\ spc' = IF spen' > MaxPenalty THEN "rejected" ELSE "loop"
    /\ UNCHANGED <<sbuf, soff, sres>>
    /\ UNCHANGED scOthers

\* nextptr == 0 after enough lines: return (score, load, end_off, lines)
SAccept ==
    /\ spc = "loop"
    /\ siter < MaxScoreLines
    /\ sp + 4 < Len(sbuf)
    /\ u16le(sbuf, sp) = 0
    /\ EnoughLines(slines)
    /\ sres' = <<ScoreValue(slines, u16le(sbuf, soff), spen), u16le(sbuf, soff), sp + 4, slines>>
    /\ spc' = "accepted"
    /\ UNCHANGED <<sbuf, soff, sp, slines, spen, slastnum, slastptr, siter, slnums>>
    /\ UNCHANGED scOthers

\* the record at p passes the checks before find_eol (it can be read, its
\* pointer is not 0, its number is at most 63999) and no terminator is found
NoEolAt(buf, p, iter) ==
    IF iter >= MaxScoreLines THEN FALSE
    ELSE IF p + 4 >= Len(buf) THEN FALSE
    ELSE IF u16le(buf, p) = 0 THEN FALSE
    ELSE IF u16le(buf, p + 2) > MaxLineNumber THEN FALSE
    ELSE find_eol(buf, p + 4, EolLimit) = -1

\* the loop breaks without a candidate: return None; the break at find_eol
\* comes after the penalty for a falling line number
SReject ==
    /\ spc = "loop"
    /\ ~LineAt(sbuf, sp, siter)
    /\ IF siter >= MaxScoreLines \/ sp + 4 >= Len(sbuf) THEN TRUE
       ELSE IF u16le(sbuf, sp) = 0 THEN ~EnoughLines(slines)
       ELSE TRUE
    /\ spen' = IF NoEolAt(sbuf, sp, siter)
               THEN spen + GlitchPenalty(slines, u16le(sbuf, sp + 2), slastnum)
               ELSE spen
    /\ sres' = NoCandidate
    /\ spc' = "rejected"
    /\ UNCHANGED <<sbuf, soff, sp, slines, slastnum, slastptr, siter, slnums>>
    /\ UNCHANGED scOthers

ScoreNext == SEnter \/ SRefuse \/ SLine \/ SAccept \/ SReject

SpecScore == ScoreInit /\ [][ScoreNext]_vars

(***************************************************************************)
(* main() of tap_find_basic_prg.py from the decoded stream on: the scan of *)
(* find_best_basic, the cut of the program image, and prg_to_listing over  *)
(* it line by line.                                                        *)
(***************************************************************************)
MaxRecLines == 4

RecLoads == {4097, 4609}

RecProfiles == {"clean", "desc", "skew", "far", "worst", "bignum"}

\* mutant of RecoveredImage: the image is cut from the start of the stream
RecoveredImageFromStart(buf, best) == Slice(buf, 0, best[3])

\* "prg = decoded[best_off:end_off]", best = (best_off, load, end_off, line_count)
RecoveredImage(buf, best) == Slice(buf, best[1], best[3])

\* what find_best_basic returns from the best it holds
BestReturned == <<fbest[2], fbest[3], fbest[4], fbest[5]>>

RecInit ==
    /\ \E lead \in 0..1, load \in RecLoads, n \in 2..MaxRecLines, profile \in RecProfiles :
          fbuf = ScoreBuffer(lead, load, n, profile, 3) \o Repeat(NoiseByte, ScanMargin + 1)
    /\ foff = 0
    /\ fbest = <<>>
    /\ fpc = "scan"
    /\ LocOthersIdle

\* "prg = decoded[best_off:end_off]" and the entry of prg_to_listing(prg)
MainRecover ==
    /\ fpc = "found"
    /\ lpc = "idle"
    /\ lmode' = "eol"
    /\ limg' = RecoveredImage(fbuf, BestReturned)
    /\ loff' = 2
    /\ liter' = 0
    /\ llines' = <<>>
    /\ lnext' = -1
    /\ lvisited' = <<2>>
    /\ ltext' = <<>>
    /\ lpc' = "run"
    /\ UNCHANGED listOthers

RecNext ==
    LocTake \/ LocKeep \/ LocSkip \/ LocReturn \/ LocFatal \/ MainRecover \/ ListLine \/ ListStop

SpecRecover == RecInit /\ [][RecNext]_vars

(***************************************************************************)
(* C1: bit decode round trip.  For every byte sequence B of length >= 1,   *)
(* the stream made of one sync marker and eight LSB-first bit pairs per    *)
(* byte (nothing after it) decodes to exactly B.                           *)
(***************************************************************************)
C1_RoundTrip ==
    (dpc = "done" /\ Len(cats) = 18 * Len(dsrc)) => dout = dsrc

(***************************************************************************)
(* C2: block parsing of an exact frame.  For the 202-byte stream made of   *)
(* the primary countdown 0x89..0x81, a 192-byte payload P and the byte     *)
(* XOR(P), with nothing after it, find_blocks returns exactly one block,   *)
(* tagged copy A, with payload P and a matching checksum.                  *)
(***************************************************************************)
IsExactFrameA(stream) ==
    /\ Len(stream) = CountdownLen + PayloadLen + 1
    /\ Slice(stream, 0, CountdownLen) = COUNTDOWN_A
    /\ At(stream, CountdownLen + PayloadLen)
          = xor_checksum(Slice(stream, CountdownLen, CountdownLen + PayloadLen))

BlocksKnown == mpc \notin {"idle", "decoded"}

C2_ExactFrame ==
    (BlocksKnown /\ IsExactFrameA(decoded)) =>
        /\ Len(blocks) = 1
        /\ ~blocks[1].copyB
        /\ blocks[1].payload = Slice(decoded, CountdownLen, CountdownLen + PayloadLen)
        /\ ChecksumOk(blocks[1])

(***************************************************************************)
(* C7: block payload invariant.  Every block find_blocks returns has a     *)
(* payload of exactly 192 bytes and a checksum byte read from inside the   *)
(* stream; a countdown that is followed by fewer than 193 bytes never      *)
(* produces a block.                                                       *)
(***************************************************************************)
C7_PayloadInvariant ==
    BlocksKnown =>
        /\ \A k \in 1..Len(blocks) :
              /\ Len(blocks[k].payload) = 192
              /\ blocks[k].payload = Slice(decoded, blocks[k].off, blocks[k].off + 192)
              /\ blocks[k].off + 192 < Len(decoded)
              /\ blocks[k].cks = At(decoded, blocks[k].off + 192)
        /\ \A j \in 0..(Len(decoded) - 1) :
              (IsCountdownAt(decoded, j) /\ Len(decoded) - (j + 9) < 193)
                  => \A k \in 1..Len(blocks) : blocks[k].off # j + 9

\* a block was found, and the stream ends in a countdown with too few bytes after it
C7_Witness ==
    /\ mpc = "found"
    /\ Len(blocks) >= 1
    /\ \E j \in 0..(Len(decoded) - 1) :
          IsCountdownAt(decoded, j) /\ Len(decoded) - (j + 9) < 193

(***************************************************************************)
(* C8: checksum mismatch is tolerated.  Flipping one payload bit of a      *)
(* found, checksum-valid block leaves the number of blocks found and that  *)
(* block's offset and copy tag unchanged, turns its checksum from match to *)
(* mismatch, and the block stays in the copy stream used for assembly      *)
(* whatever the script and the copy option.                                *)
(***************************************************************************)
\* <<payload position, bit>> of the flips tried on each valid block
FlipSamples == {<<0, 0>>, <<100, 7>>, <<191, 3>>}

\* block k survives, at the same index of the selected stream, in the flipped stream
StillSelected(bl, bl2, k) ==
    \A pg \in {"basic", "blocks"}, uc \in UseCopyChoices :
        LET sel == SelectBlocks(pg, uc, bl)
            sel2 == SelectBlocks(pg, uc, bl2)
        IN /\ Len(sel2) = Len(sel)
           /\ \A m \in 1..Len(sel) : (sel[m].off = bl[k].off) => sel2[m] = bl2[k]

FlipTolerated(k, f) ==
    LET bl2 == find_blocks(FlipBit(decoded, blocks[k].off + f[1], f[2]))
    IN /\ Len(bl2) = Len(blocks)
       /\ bl2[k].off = blocks[k].off
       /\ bl2[k].copyB = blocks[k].copyB
       /\ bl2[k].payload = FlipBit(blocks[k].payload, f[1], f[2])
       /\ ~ChecksumOk(bl2[k])
       /\ StillSelected(blocks, bl2, k)

C8_MismatchTolerated ==
    mpc = "found" =>
        \A k \in 1..Len(blocks) :
            ChecksumOk(blocks[k]) => \A f \in FlipSamples : FlipTolerated(k, f)

\* the stream holds a valid block (which the flips act on) beside a recorded
\* block whose checksum does not match
C8_Witness ==
    /\ mpc = "found"
    /\ \E k \in 1..Len(blocks) : ChecksumOk(blocks[k])
    /\ \E k \in 1..Len(blocks) : ~ChecksumOk(blocks[k])

(***************************************************************************)
(* C9: copy selection policy.  In automatic mode the selected set is       *)
(* exactly the copy-A blocks when one exists and exactly the copy-B blocks *)
(* otherwise; with the override A (B) it is exactly the A (B) blocks; the  *)
(* set never mixes copies, and an empty set is fatal, not a fallback.      *)
(***************************************************************************)
CopyOnly(bl, wantB) == SelectSeq(bl, LAMBDA b : b.copyB = wantB)

HasCopy(bl, wantB) == \E k \in 1..Len(bl) : bl[k].copyB = wantB

CopySelected == mpc \in {"selected", "fatal_nocopy", "header", "fatal_header", "written"}

C9_CopySelection ==
    CopySelected =>
        /\ use_copy = "AUTO" =>
              use_blocks = IF HasCopy(blocks, FALSE) THEN CopyOnly(blocks, FALSE)
                           ELSE CopyOnly(blocks, TRUE)
        /\ use_copy = "A" => use_blocks = CopyOnly(blocks, FALSE)
        /\ use_copy = "B" => use_blocks = CopyOnly(blocks, TRUE)
        /\ \A i, j \in 1..Len(use_blocks) : use_blocks[i].copyB = use_blocks[j].copyB
        /\ (use_blocks = <<>>) <=> (mpc = "fatal_nocopy")

\* the override asks for copy A, the stream holds only copy-B blocks: fatal
C9_Witness ==
    /\ mpc = "fatal_nocopy"
    /\ use_copy = "A"
    /\ HasCopy(blocks, TRUE)
    /\ use_blocks = <<>>

(***************************************************************************)
(* C10: assembler truncation and shortfall.  The body is the payloads of   *)
(* the blocks after the header block, concatenated in block order and cut  *)
(* to the declared length end - start, so its length is min(declared,      *)
(* 192 x following blocks); when fewer bytes than declared exist the image *)
(* is still written and the shortfall is flagged as a warning.             *)
(***************************************************************************)
FollowingBlocks == Len(use_blocks) - (hdr.index + 1)

BodyOf(image) == Slice(image, 2, Len(image))

RECURSIVE PayloadsInOrder(_, _)
PayloadsInOrder(ub, k) ==
    IF k > Len(ub) THEN <<>> ELSE ub[k].payload \o PayloadsInOrder(ub, k + 1)

C10_Assembly ==
    mpc = "written" =>
        /\ Len(BodyOf(prg)) = Min2(hdr.end - hdr.start, 192 * FollowingBlocks)
        /\ Len(BodyOf(prg)) <= hdr.end - hdr.start
        /\ BodyOf(prg) = Slice(PayloadsInOrder(use_blocks, hdr.index + 2), 0, Len(BodyOf(prg)))
        /\ (192 * FollowingBlocks < hdr.end - hdr.start) => warned

\* the part of C10 that tap_to_basic_blocks.py satisfies
C10_AssemblyBlocksOnly == prog = "blocks" => C10_Assembly

(***************************************************************************)
(* C5: detokenizer quote state machine.  Scanning starts in Code; every    *)
(* 0x22 byte toggles Code/InString and emits a quote character; a byte     *)
(* >= 0x80 is replaced by keyword text only in Code; in InString no byte   *)
(* is replaced by keyword text: it goes through the PETSCII mapping.       *)
(***************************************************************************)
\* the state the quote bytes before 0-based position k leave the scan in
InStringAt(body, k) == Cardinality({j \in 0..(k - 1) : At(body, j) = 34}) % 2 = 1

\* the fixed keyword or operator text of a token byte
KeywordOf(b) == TokenText[b - 127]

PetsciiOf(variant, b) ==
    IF variant = "line" THEN petscii_best_ascii_byte(b) ELSE petscii_to_ascii(b)

C5_QuoteMachine ==
    tpc \in {"scan", "done"} =>
        /\ Len(tout) = ti
        /\ tinq = InStringAt(tbody, ti)
        /\ \A k \in 0..(ti - 1) :
              LET b == At(tbody, k)
                  piece == At(tout, k)
              IN /\ b = 34 => piece = <<34>>
                 /\ (InStringAt(tbody, k) /\ b # 34) => piece = PetsciiOf(tvariant, b)
                 /\ (InStringAt(tbody, k) /\ InTokenTable(tvariant, b)) => piece # KeywordOf(b)
                 /\ (InTokenTable(tvariant, b) /\ piece = KeywordOf(b)) => ~InStringAt(tbody, k)

\* PRINT in code and again inside an open quote: keyword outside, PETSCII inside
C5_Witness ==
    /\ tpc = "done"
    /\ tvariant = "line"
    /\ tbody = <<153, 34, 153, 65>>
    /\ tout = <<KeywordOf(153), <<34>>, <<46>>, <<65>>>>
    /\ ttext = <<80, 82, 73, 78, 84, 34, 46, 65>>

(***************************************************************************)
(* C6: pointer-based traversal terminates.  With next offset               *)
(* 2 + (next_pointer - load_address), the line offset strictly increases   *)
(* on every step that continues; a next offset not greater than the        *)
(* current one, or beyond the image, ends the traversal; so no offset is   *)
(* visited twice and the traversal ends after finitely many lines.         *)
(***************************************************************************)
LastOf(sq) == sq[Len(sq)]

C6_PointerTraversal ==
    (lmode = "pointer" /\ lpc \in {"run", "done"}) =>
        /\ \A i, j \in 1..Len(lvisited) : i < j => lvisited[i] < lvisited[j]
        /\ \A i \in 1..Len(lvisited) : 2 <= lvisited[i] /\ lvisited[i] <= Len(limg)
        /\ loff = LastOf(lvisited)
        /\ Len(llines) <= Len(limg)
        /\ (lnext # -1 /\ lpc = "run") =>
              /\ loff = lnext
              /\ Len(lvisited) = Len(llines) + 1
              /\ lnext > lvisited[Len(lvisited) - 1]
              /\ lnext <= Len(limg)
        /\ (lnext # -1 /\ lnext # loff) =>
              /\ lpc = "done"
              /\ (lnext < loff \/ lnext > Len(limg))
        /\ (lpc = "done" /\ Len(llines) = Len(lvisited)) =>
              (lnext <= loff \/ lnext > Len(limg))
        /\ Len(lvisited) <= Len(limg) - 1

\* a corrupted pointer (back to an earlier line) ended a traversal that had
\* already followed one pointer forward
C6_Witness ==
    /\ lmode = "pointer"
    /\ lpc = "done"
    /\ Len(lvisited) >= 2
    /\ lnext # -1
    /\ lnext <= loff

(***************************************************************************)
(* C3: end-to-end minimal capture.  A capture with the right signature and *)
(* version whose pulses classify into exactly one sync pattern followed by *)
(* 8 well-formed bit-pairs is read, classified and decoded without a fatal *)
(* error, and the decoded buffer holds the one encoded byte.               *)
(***************************************************************************)
IsMinimalCapture ==
    /\ ~ReadFails(capture)
    /\ Len(ccats) = 18
    /\ IsSync(ccats, 0)
    /\ PairsOk(ccats, 0)

C3_MinimalCapture ==
    /\ (cpc \in {"fatal_format", "fatal_nopulses"}) =>
          (ReadFails(capture) \/ ClassifyFails(pulses))
    /\ (cpc = "decoded" /\ IsMinimalCapture) =>
          cdecoded = <<ByteFromPairs(ccats, 0, 0)>>

(***************************************************************************)
(* C4: heuristic scan winner.  find_best_basic evaluates                   *)
(* score_basic_candidate at every byte offset of the stream; it returns    *)
(* the candidate with the highest score of all offsets that yield one, the *)
(* lowest offset among equal highest scores; it raises the fatal error     *)
(* only when no offset of the stream yields a candidate.                   *)
(***************************************************************************)
CandidateOffsets(buf) ==
    {o \in 0..(Len(buf) - 1) : score_basic_candidate(buf, o) # NoCandidate}

\* the offsets the scan visits: the winner is the best of these
C4_WinnerAmongScanned ==
    fpc \in {"found", "fatal_nocandidate"} =>
        LET scanned == {o \in CandidateOffsets(fbuf) : o < ScanEnd(fbuf)}
        IN IF fpc = "fatal_nocandidate" THEN scanned = {}
           ELSE /\ fbest[2] \in scanned
                /\ fbest[1] = score_basic_candidate(fbuf, fbest[2])[1]
                /\ \A o \in scanned :
                      LET sc == score_basic_candidate(fbuf, o)[1]
                      IN sc < fbest[1] \/ (sc = fbest[1] /\ fbest[2] <= o)

C4_ScanWinner ==
    fpc \in {"found", "fatal_nocandidate"} =>
        LET valid == CandidateOffsets(fbuf)
        IN IF fpc = "fatal_nocandidate" THEN valid = {}
           ELSE /\ fbest[2] \in valid
                /\ \A o \in valid :
                      LET sc == score_basic_candidate(fbuf, o)[1]
                      IN sc < fbest[1] \/ (sc = fbest[1] /\ fbest[2] <= o)

(***************************************************************************)
(* C11: header sanity.  A header is accepted for assembly only if          *)
(* end_addr > start_addr and the declared length does not exceed the       *)
(* ceiling; when the header violates this the attempt ends in a fatal      *)
(* error and no program image is written.                                  *)
(***************************************************************************)
HeaderViolates(payload) ==
    LET h == parse_header(payload)
    IN h.end <= h.start \/ h.end - h.start > MaxHeaderLength

HeaderSettled == mpc \in {"header", "fatal_header", "written"}

C11_HeaderSanity ==
    /\ mpc \in {"header", "written"} =>
          /\ hdr.end > hdr.start
          /\ hdr.length = hdr.end - hdr.start
          /\ hdr.length <= MaxHeaderLength
          /\ ~HeaderViolates(At(use_blocks, hdr.index).payload)
    /\ (HeaderSettled /\ prog = "basic" /\ HeaderViolates(At(use_blocks, 0).payload)) =>
          mpc = "fatal_header"
    /\ (HeaderSettled /\ prog = "blocks"
          /\ \A k \in 1..Len(use_blocks) : HeaderViolates(use_blocks[k].payload)) =>
          mpc = "fatal_header"
    /\ mpc = "fatal_header" => (prg = <<>> /\ ~warned)
    /\ mpc = "written" => Len(prg) >= 2

\* the first block declares end below start: fatal, nothing written
C11_Witness ==
    /\ mpc = "fatal_header"
    /\ prog = "basic"
    /\ parse_header(At(use_blocks, 0).payload).end < parse_header(At(use_blocks, 0).payload).start
    /\ prg = <<>>

(***************************************************************************)
(* C12: fatal error taxonomy.  Every DecodeExhaustion failure (no pulse in *)
(* the clusterable range, no plausible candidate found) is signalled with  *)
(* an error kind different from the kind used for FormatError (bad         *)
(* signature, unsupported version).                                        *)
(***************************************************************************)
\* the kind every format failure carries
C12_FormatKind == cpc = "fatal_format" => cerr = ValueError

C12_ErrorKinds ==
    cpc \in {"fatal_nopulses", "fatal_nocandidate"} => cerr # ValueError

(***************************************************************************)
(* C13: cluster centers are strictly ordered.  For every pulse input with  *)
(* at least one value in [10,250] the three centers returned satisfy       *)
(* Short < Medium < Long, also with fewer than three distinct values.      *)
(***************************************************************************)
Clustered == kpc \in {"clustered", "classified"}

\* what the code does ensure: ascending, not strictly
C13_Ascending ==
    Clustered =>
        /\ ~FLess(FloatOf(kresult[2]), FloatOf(kresult[1]))
        /\ ~FLess(FloatOf(kresult[3]), FloatOf(kresult[2]))

C13_StrictOrder ==
    Clustered =>
        /\ FLess(FloatOf(kresult[1]), FloatOf(kresult[2]))
        /\ FLess(FloatOf(kresult[2]), FloatOf(kresult[3]))

(***************************************************************************)
(* C14: clustering is independent of input order.  kmeans_1d returns the   *)
(* same three centers for every permutation of the input list: the result  *)
(* on any list equals the result on the sorted list and on the reversed    *)
(* list (the lists checked are closed under permutation).                  *)
(***************************************************************************)
Reversed(sq) == [k \in 1..Len(sq) |-> sq[Len(sq) + 1 - k]]

C14_OrderIndependent ==
    Clustered =>
        LET small == SmallPulses(kpulses)
        IN /\ kresult = kmeans_1d(small)
           /\ kresult = kmeans_1d(SortSeq(small, LAMBDA a, b : a < b))
           /\ kresult = kmeans_1d(Reversed(small))

\* an unsorted list with three distinct in-range values took a round to settle
C14_Witness ==
    /\ Clustered
    /\ kround >= 1
    /\ Cardinality({SmallPulses(kpulses)[k] : k \in 1..Len(SmallPulses(kpulses))}) = 3
    /\ \E i, j \in 1..Len(SmallPulses(kpulses)) :
          i < j /\ SmallPulses(kpulses)[i] > SmallPulses(kpulses)[j]

(***************************************************************************)
(* C15: pulse classification.  The category list has one entry per pulse   *)
(* in the same order; a pulse below 10 or above 250 is Unknown whatever    *)
(* its distance to the centers; every pulse in [10,250] gets the index of  *)
(* its nearest center, the lowest index on a tie, and is never Unknown;    *)
(* with no pulse in [10,250] classification is fatal and returns nothing.  *)
(***************************************************************************)
\* the exact distance between the pulse p and the center c the caller is given
ExactDist(p, c) == FAbsDiff(FloatOfInt(p), FloatOf(c))

\* center j (0-based) is no nearer to p than center c, and farther when j < c
NearestLowest(p, c, cs) ==
    \A j \in 0..2 :
        /\ ~FLess(ExactDist(p, cs[j + 1]), ExactDist(p, cs[c + 1]))
        /\ j < c => FLess(ExactDist(p, cs[c + 1]), ExactDist(p, cs[j + 1]))

C15_Classification ==
    /\ kpc = "classified" =>
          /\ Len(kcats) = Len(kpulses)
          /\ \E k \in 1..Len(kpulses) : 10 <= kpulses[k] /\ kpulses[k] <= 250
          /\ \A k \in 1..Len(kpulses) :
                IF kpulses[k] < 10 \/ kpulses[k] > 250 THEN kcats[k] = NoneCat
                ELSE kcats[k] \in {CatS, CatM, CatL} /\ NearestLowest(kpulses[k], kcats[k], kresult)
    /\ kpc = "fatal_nopulses" =>
          /\ \A k \in 1..Len(kpulses) : kpulses[k] < 10 \/ kpulses[k] > 250
          /\ kcats = <<>>
    /\ (kpc # "start" /\ \A k \in 1..Len(kpulses) : kpulses[k] < 10 \/ kpulses[k] > 250) =>
          kpc = "fatal_nopulses"

\* what the code does ensure: the index is the lowest among the least of the
\* three doubles abs(p - centers[i]), each a rounded difference
C15_NearestAsComputed ==
    kpc = "classified" =>
        /\ Len(kcats) = Len(kpulses)
        /\ \A k \in 1..Len(kpulses) :
              IF kpulses[k] < 10 \/ kpulses[k] > 250 THEN kcats[k] = NoneCat
              ELSE /\ kcats[k] \in {CatS, CatM, CatL}
                   /\ \A j \in 0..2 :
                         /\ ~FLess(DistTo(kpulses[k], kresult[j + 1]),
                                   DistTo(kpulses[k], kresult[kcats[k] + 1]))
                         /\ j < kcats[k] =>
                               FLess(DistTo(kpulses[k], kresult[kcats[k] + 1]),
                                     DistTo(kpulses[k], kresult[j + 1]))

(***************************************************************************)
(* C16: pulse stream decoding.  Pulses are emitted in stream order, one    *)
(* per non-zero byte (duration = the byte) and one per complete record     *)
(* 00 b1 b2 b3 (duration = b1 + 256*b2 + 65536*b3); a zero byte with fewer *)
(* than 3 bytes after it at the end of the stream gives no pulse and no    *)
(* error; a zero byte with exactly 3 bytes after it gives its pulse.       *)
(***************************************************************************)
\* pulse k was read at rfrom[k][1]; the pulses tile the stream from 0 to ri
PulsesTileStream ==
    /\ Len(rfrom) = Len(rpulses)
    /\ \A k \in 1..Len(rfrom) :
          /\ rfrom[k][1] = (IF k = 1 THEN 0 ELSE rfrom[k - 1][1] + rfrom[k - 1][2])
          /\ rfrom[k][2] \in {1, 4}
          /\ rfrom[k][1] + rfrom[k][2] <= Len(rstream)
    /\ ri = (IF rfrom = <<>> THEN 0
             ELSE rfrom[Len(rfrom)][1] + rfrom[Len(rfrom)][2])

PulseValuesRight ==
    \A k \in 1..Len(rfrom) :
        LET pos == rfrom[k][1]
        IN IF rfrom[k][2] = 1
           THEN At(rstream, pos) # 0 /\ rpulses[k] = At(rstream, pos)
           ELSE /\ At(rstream, pos) = 0
                /\ rpulses[k] = At(rstream, pos + 1) + 256 * At(rstream, pos + 2)
                                   + 65536 * At(rstream, pos + 3)

C16_PulseStream ==
    rpc \in {"scan", "done"} =>
        /\ PulsesTileStream
        /\ PulseValuesRight
        /\ rpc = "done" =>
              /\ \/ ri = Len(rstream)
                 \/ /\ ri < Len(rstream)
                    /\ At(rstream, ri) = 0
                    /\ Len(rstream) - (ri + 1) < 3
              /\ rpulses = read_tap_v1_pulses(rcap)

\* a record that ends exactly with the stream gave its pulse
C16_Witness ==
    /\ rpc = "done"
    /\ rstream = <<48, 0, 1, 255, 0>>
    /\ rpulses = <<48, 65281>>
    /\ ri = 5

\* a cut record after a whole one: one pulse, no error
C16_WitnessCut ==
    /\ rpc = "done"
    /\ rstream = <<0, 1, 0, 0, 0, 48>>
    /\ rpulses = <<1>>

(***************************************************************************)
(* C17: accepted candidates.                                               *)
(***************************************************************************)
ScoreSettled == spc \in {"accepted", "rejected"}

AllFrom(lnums, i) == \A j \in i..Len(lnums) : lnums[j] <= MaxLineNumber

\* what the claim asks of the state in which a candidate is returned
AcceptanceTerms ==
    /\ sp + 4 < Len(sbuf)
    /\ u16le(sbuf, sp) = 0
    /\ slines >= 3
    /\ Len(slnums) = slines
    /\ 1024 <= u16le(sbuf, soff) /\ u16le(sbuf, soff) <= 16384
    /\ AllFrom(slnums, 1)
    /\ spen <= 400

\* C17: score_basic_candidate returns a candidate only at a record whose
\* next_pointer is 0, after at least 3 parsed lines, with the load address in
\* [0x0400,0x4000], every parsed line number at most 63999 and the penalty at
\* most 400; with fewer than 3 lines, a penalty above 400, a line number above
\* 63999 or no terminator it returns no candidate.
C17_AcceptedCandidates ==
    /\ spc = "accepted" => AcceptanceTerms /\ sres # NoCandidate
                             /\ sres[2] = u16le(sbuf, soff) /\ sres[3] = sp + 4
                             /\ sres[4] = slines
    /\ spc = "rejected" => sres = NoCandidate
    /\ ScoreSettled /\ slines < 3 => sres = NoCandidate
    /\ ScoreSettled /\ spen > 400 => sres = NoCandidate
    /\ ScoreSettled /\ sp + 4 < Len(sbuf) /\ sp > soff /\ u16le(sbuf, sp) # 0
          /\ u16le(sbuf, sp + 2) > 63999 => sres = NoCandidate
    /\ ScoreSettled /\ sp + 4 >= Len(sbuf) => sres = NoCandidate
    /\ ScoreSettled /\ sp > soff /\ sp + 4 < Len(sbuf) /\ u16le(sbuf, sp) # 0
          /\ find_eol(sbuf, sp + 4, EolLimit) = -1 => sres = NoCandidate

\* C17 witness: a candidate returned after three lines or more with a penalty
\* above zero
C17_Witness ==
    /\ spc = "accepted"
    /\ slines >= 3
    /\ spen > 0
    /\ u16le(sbuf, sp) = 0
    /\ sres # NoCandidate

\* C17 witness: a two-line program, read to its terminator, is no candidate
C17_WitnessFewLines ==
    /\ spc = "rejected"
    /\ slines = 2
    /\ sp + 4 < Len(sbuf)
    /\ u16le(sbuf, sp) = 0
    /\ sres = NoCandidate

\* C17 witness: the ninth bad line takes the penalty above 400
C17_WitnessPenalty == spc = "rejected" /\ spen > 400 /\ slines >= 3

\* C17 witness: a line numbered 64000 after three sound lines
C17_WitnessLineNumber ==
    /\ spc = "rejected"
    /\ slines >= 3
    /\ sp + 4 < Len(sbuf)
    /\ u16le(sbuf, sp) # 0
    /\ u16le(sbuf, sp + 2) = 64000

(***************************************************************************)
(* C18: the score grows with the line count.                               *)
(***************************************************************************)
MaxOf2(a, b) == IF a >= b THEN a ELSE b

\* closeness = max(0, 40 - |load - 0x1001| div 16), as the claim writes it
ClaimedCloseness(load) == MaxOf2(0, 40 - (Abs(load - 4097) \div 16))

\* load addresses score_basic_candidate accepts, of those sampled
GoodLoads == {load \in ScoreLoads : 1024 <= load /\ load <= 16384}

\* the score of the sound n-line program at the given load address
CleanScore(n, load) == score_basic_candidate(ScoreBuffer(0, load, n, "clean", 3), 0)[1]

\* sbuf is the sound 10-line program at some load address
TenCleanLines ==
    \E lead \in 0..1, load \in GoodLoads :
        sbuf = ScoreBuffer(lead, load, 10, "clean", 3) /\ soff = lead

\* C18: the score of an accepted candidate is 50 x lines + closeness - penalty
\* with closeness = max(0, 40 - |load - 0x1001| div 16) in 0..40, and a sound
\* 10-line candidate scores strictly higher than a sound 5-line one whatever
\* the two load addresses.
C18_ScoreGrows ==
    spc = "accepted" =>
        /\ sres[1] = 50 * slines + ClaimedCloseness(u16le(sbuf, soff)) - spen
        /\ ClaimedCloseness(u16le(sbuf, soff)) \in 0..40
        /\ TenCleanLines =>
              /\ spen = 0
              /\ slines = 10
              /\ \A load \in GoodLoads : sres[1] > CleanScore(5, load)

\* C18 witness: the 10-line program at a load address of closeness 0 is
\* accepted, and the 5-line program at 0x1001 has closeness 40
C18_Witness ==
    /\ spc = "accepted"
    /\ TenCleanLines
    /\ u16le(sbuf, soff) = 16384
    /\ sres[1] = 500
    /\ CleanScore(5, 4097) = 290


(***************************************************************************)
(* C19: symbols per decoded byte.                                          *)
(***************************************************************************)
\* C19: every byte the bit decoder appends is reconstructed from exactly 16
\* consecutive category symbols, the sync marker pair and the 8 bit-pairs
\* together: the scan position advances by 16 symbols for each emitted byte.
C19_SixteenSymbols == [][Len(dout') > Len(dout) => di' = di + 16]_vars

\* what the decoder does: the marker pair and 16 bit symbols, 18 in all
C19_EighteenSymbols ==
    [][Len(dout') > Len(dout) => Len(dout') = Len(dout) + 1 /\ di' = di + 18]_vars

(***************************************************************************)
(* C20: blocks are non-overlapping and in stream order.                    *)
(***************************************************************************)
\* a countdown starts at j, inside the payload or at the checksum of block b,
\* with enough bytes after it to be taken for a block by a scan that reached it
CountdownInside(b, j) ==
    /\ b.off <= j
    /\ j <= b.off + 192
    /\ IsCountdownAt(decoded, j)
    /\ BlockGuard(decoded, j)

\* the stream without the checksum byte of block b: what followed the checksum
\* now starts at the checksum position
ChecksumDropped(stream, b) ==
    SubSeq(stream, 1, b.off + 192) \o SubSeq(stream, b.off + 194, Len(stream))

\* the next frame's countdown, moved onto the checksum position of the first
\* block, starts no block
ChecksumCountdownSkipped ==
    LET d == ChecksumDropped(decoded, blocks[1])
        fb == find_blocks(d)
    IN /\ IsCountdownAt(d, blocks[1].off + 192)
       /\ fb # <<>>
       /\ fb[1].off = blocks[1].off
       /\ \A q \in 1..Len(fb) : fb[q].off # blocks[1].off + 192 + 9

\* C20: in the list find_blocks returns the payload offsets are strictly
\* increasing, each at least 202 after the previous one, so no stream byte
\* belongs to two blocks, and a countdown inside the payload or checksum of a
\* found block never starts another block.
C20_NonOverlapping ==
    BlocksKnown =>
        /\ \A k \in 1..(Len(blocks) - 1) :
              /\ blocks[k + 1].off > blocks[k].off
              /\ blocks[k + 1].off - blocks[k].off >= 202
              /\ (blocks[k].off + 192) < (blocks[k + 1].off - 9)
        /\ \A k \in 1..Len(blocks) :
              \A j \in blocks[k].off..(blocks[k].off + 192) :
                 CountdownInside(blocks[k], j)
                    => \A q \in 1..Len(blocks) : blocks[q].off # j + 9
        /\ (mpc = "found" /\ Len(blocks) >= 2 /\ blocks[2].off = blocks[1].off + 202
               /\ BlockGuard(decoded, blocks[2].off - 9 + 1))
              => ChecksumCountdownSkipped

\* C20 witness: a block was found after a block whose payload holds a
\* countdown that a scan reaching it would have taken
C20_Witness ==
    /\ mpc = "found"
    /\ \E k \in 1..(Len(blocks) - 1) :
          /\ \E j \in blocks[k].off..(blocks[k].off + 192) : CountdownInside(blocks[k], j)
          /\ blocks[k + 1].off = blocks[k].off + 202

\* C20 witness: a countdown on the checksum position of the first block, with
\* room for a block after it
C20_WitnessChecksum ==
    /\ mpc = "found"
    /\ Len(blocks) >= 2
    /\ blocks[2].off = blocks[1].off + 202
    /\ BlockGuard(decoded, blocks[2].off - 9 + 1)
    /\ BlockGuard(ChecksumDropped(decoded, blocks[1]), blocks[1].off + 192)
    /\ ChecksumCountdownSkipped

(***************************************************************************)
(* C21: bit decoder progress and bounds.                                   *)
(***************************************************************************)
\* the pair at j is (Medium, Short) or (Short, Medium), read from the sequence
GoodPairAt(j) ==
    /\ 0 <= j /\ j + 1 < Len(cats)
    /\ <<cats[j + 1], cats[j + 2]>> \in {<<1, 0>>, <<0, 1>>}

\* the pairs of the frame at di before the first bad one, and that one
RECURSIVE PairsRead(_)
PairsRead(k) ==
    IF k = 8 THEN {}
    ELSE {di + 2 + 2 * k, di + 3 + 2 * k} \cup (IF GoodPairAt(di + 2 + 2 * k) THEN PairsRead(k + 1) ELSE {})

\* the indices the loop iteration at di reads: cats[i], cats[i+1] when cats[i]
\* is Long, and the pairs when the marker is there
ReadsAt ==
    {di} \cup (IF di < Len(cats) /\ cats[di + 1] # 2 THEN {}
               ELSE {di + 1} \cup (IF di + 1 < Len(cats) /\ cats[di + 2] \in {0, 1}
                                   THEN PairsRead(0) ELSE {}))

ReadsInBounds == \A r \in ReadsAt : 0 <= r /\ r < Len(cats)

\* one loop iteration: the position advances by 1 with the output unchanged,
\* or by 18 with one byte appended after eight good pairs
IterationStep ==
    di' # di =>
        \/ di' = di + 1 /\ dout' = dout
        \/ /\ di' = di + 18
           /\ Len(dout') = Len(dout) + 1
           /\ SubSeq(dout', 1, Len(dout)) = dout
           /\ \A k \in 0..7 : GoodPairAt(di + 2 + 2 * k)

\* C21: for every category sequence each loop iteration of the decoder
\* advances the scan position by exactly 1 (rejected) or exactly 18 (emitted
\* byte), no read indexes at or past the end, a pair with Unknown or any pair
\* other than (Medium,Short)/(Short,Medium) emits nothing, the output only
\* grows by appending, and the decode terminates.
C21_ProgressAndBounds ==
    /\ []((dpc = "scan" /\ DecodeGuard(cats, di, dslack)) => ReadsInBounds)
    /\ [][IterationStep]_vars
    /\ [][SubSeq(dout', 1, Len(dout)) = dout]_vars
    /\ <>(dpc = "done")

\* C21 witness: the decode ended, one byte was emitted, and the sequence holds
\* a marker followed by a pair with an Unknown symbol in it
C21_Witness ==
    /\ dpc = "done"
    /\ Len(dout) = 1
    /\ di > 18
    /\ \E j \in 0..(Len(cats) - 19) :
          /\ cats[j + 1] = 2
          /\ cats[j + 2] \in {0, 1}
          /\ cats[j + 4] = -1

(***************************************************************************)
(* C22: locator and detokenizer agree.                                     *)
(***************************************************************************)
\* number of line feeds in a text
RECURSIVE CountNewlines(_, _)
CountNewlines(text, k) ==
    IF k > Len(text) THEN 0
    ELSE (IF text[k] = 10 THEN 1 ELSE 0) + CountNewlines(text, k + 1)

\* C22: when find_best_basic succeeds with (best_off, load, end_off,
\* line_count), the image decoded[best_off:end_off] begins with the
\* little-endian load address and the terminator-based prg_to_listing emits
\* exactly line_count lines over it, stopping at the record whose
\* next_pointer is 0.
C22_LocatorListingAgree ==
    /\ lpc \in {"run", "done"} =>
          /\ limg = Slice(fbuf, fbest[2], fbest[4])
          /\ Len(limg) >= 2
          /\ limg[1] = fbest[3] % 256
          /\ limg[2] = fbest[3] \div 256
          /\ Len(llines) <= fbest[5]
    /\ lpc = "done" =>
          /\ Len(llines) = fbest[5]
          /\ CountNewlines(ltext, 1) = fbest[5]
          /\ loff + 4 <= Len(limg)
          /\ limg[loff + 1] = 0 /\ limg[loff + 2] = 0
          /\ ltext = prg_to_listing("eol", limg)

\* C22 witness: a candidate that does not start the stream and has penalties
\* was found, cut out and listed to its terminator
C22_Witness ==
    /\ lpc = "done"
    /\ fpc = "found"
    /\ fbest[2] = 1
    /\ fbest[1] < 50 * fbest[5]
    /\ Len(llines) = 4

(***************************************************************************)
(* C23: the two traversal modes agree on consistent images.                *)
(***************************************************************************)
\* from the record at off on, every line's next_pointer is the load address
\* plus the position in the body just after the line's terminator
RECURSIVE ConsistentFrom(_, _)
ConsistentFrom(img, off) ==
    IF off + 4 > Len(img) THEN TRUE
    ELSE IF img[off + 1] = 0 /\ img[off + 2] = 0 THEN TRUE
    ELSE LET eol == FindZero(img, off + 4, Len(img))
         IN IF eol = -1 THEN TRUE
            ELSE /\ img[off + 1] + 256 * img[off + 2] = (img[1] + 256 * img[2]) + (eol + 1) - 2
                 /\ ConsistentFrom(img, eol + 1)

ConsistentImage == Len(limg) >= 2 /\ ConsistentFrom(limg, 2)

OtherMode == IF lmode = "pointer" THEN "eol" ELSE "pointer"

\* C23: on a program image in which each line's next_pointer equals the load
\* address plus the position just after that line's terminator, the
\* pointer-based and the terminator-based prg_to_listing produce the same
\* listing, with the lines in traversal order and the line numbers as read.
C23_ModesAgree ==
    (lpc = "done" /\ ConsistentImage) =>
        /\ ltext = prg_to_listing(OtherMode, limg)
        /\ ltext = prg_to_listing(lmode, limg)
        /\ \A k \in 1..Len(llines) :
              /\ llines[k][1] = limg[lvisited[k] + 3] + 256 * limg[lvisited[k] + 4]
              /\ k > 1 => lvisited[k] > lvisited[k - 1]
              /\ llines[k][2] = detokenise_line(
                    Slice(limg, lvisited[k] + 4, FindZero(limg, lvisited[k] + 4, Len(limg))))

\* C23 witness: the pointer-based traversal listed a consistent image of
\* three lines whose numbers fall, in the order 30, 20, 10
C23_Witness ==
    /\ lpc = "done"
    /\ lmode = "pointer"
    /\ ConsistentImage
    /\ Len(llines) = 3
    /\ llines[1][1] = 30 /\ llines[2][1] = 20 /\ llines[3][1] = 10

====
